---- MODULE Spec2Model ----
(***************************************************************************)
(* Verification model of the tonpixo agent backend: the schema-first       *)
(* guard and the job scoping of the SQL tool (agent.py, mcp_client.py),    *)
(* the stream classifier (agent.py, main.py) and the idempotent turn       *)
(* persistence (db.py).                                                    *)
(***************************************************************************)
EXTENDS Integers, Sequences, FiniteSets, TLC

VARIABLES
    \* ---- agent sessions (create_data_tools) and the shared gateway client
    job_id,             \* job id captured by each session's tool closures
    schema_state,       \* schema_state["loaded"] of each session
    schema_fetched,     \* history: a fetch resolved to schema/* succeeded in the session
    cls,                \* stream classifier locals of each invocation
    resource_cache,     \* MCPClient._resource_content_cache: resolved name -> fetched_at (-1: none)
    now,                \* time.time()
    cache_ttl_seconds,  \* MCPClient.cache_ttl_seconds
    require_schema,     \* AGENT_REQUIRE_SCHEMA_BEFORE_SQL
    last,               \* the most recent step: who acted, what was sent and returned
    \* ---- one streaming invocation (process_chat_stream, chat_stream.generate)
    spc,                \* position of process_chat_stream
    src,                \* source events received from astream_events so far
    st,                 \* tools_used, pending_tool_count, post_tool_buffer
    out,                \* events yielded by process_chat_stream
    sse,                \* events written by chat_stream.generate
    \* ---- turn persistence (save_message)
    table,              \* MessagesTable: the set of stored items
    calls,              \* save_message calls in progress or finished
    db_clock,           \* datetime.utcnow() as seen by save_message
    reads,              \* what the latest call of a read path returned
    \* ---- one request to the chat endpoints (main.py) and its graph run
    req_chat_id,        \* request.chat_id ("": none)
    ep,                 \* position of the endpoint handler
    turns,              \* turns the endpoint has persisted with save_message
    chat_result,        \* what process_chat returned
    chat_response,      \* the HTTP response body of chat
    graph_node,         \* the graph node to run next, or how the run ended
    graph_steps,        \* graph steps run so far
    graph_messages,     \* state["messages"] of the graph
    recursion_limit,    \* AGENT_RECURSION_LIMIT
    system_prompt,      \* what build_system_prompt returned for the graph
    \* ---- a function of the program applied on its own
    evaluated,          \* the latest application: function, arguments, result
    \* ---- the ingestion worker and the jobs table
    jobs_item,          \* the job's item in the jobs table: status and count
    worker              \* lambda_handler's position in its record, and its locals

guardVars  == <<job_id, schema_state, schema_fetched, cls, resource_cache, now,
                cache_ttl_seconds, require_schema, last>>
streamVars == <<spc, src, st, out, sse>>
dbVars     == <<table, calls, db_clock, reads>>
chatVars   == <<req_chat_id, ep, turns, chat_result, chat_response, graph_node, graph_steps,
                graph_messages, recursion_limit, system_prompt>>
evalVars   == <<evaluated>>
workerVars == <<jobs_item, worker>>
vars       == <<guardVars, streamVars, dbVars, chatVars, evalVars, workerVars>>

(***************************************************************************)
(* Bounds of the model.                                                    *)
(***************************************************************************)
MaxTime    == 1     \* the clock runs from 0 to MaxTime
MaxBuffer  == 1     \* buffered chunks per invocation in the two-invocation model
MaxPending == 1     \* running tools per invocation in the two-invocation model
MaxEvents  == 5     \* source events of the single streaming invocation
MaxCalls   == 3     \* save_message calls, finished or in flight
MaxClock   == 1     \* the store's wall clock runs from 0 to MaxClock

Sessions == {"s1", "s2"}
Jobs     == {"J1", "J2"}

(***************************************************************************)
(* Strings, as Python's str methods compute them.                          *)
(***************************************************************************)
Max(a, b) == IF a >= b THEN a ELSE b
Min(a, b) == IF a <= b THEN a ELSE b

CharAt(s, i) == SubSeq(s, i, i)

StartsWith(s, p) == Len(s) >= Len(p) /\ SubSeq(s, 1, Len(p)) = p

\* s[len(p):], used where the code has checked s.startswith(p) and calls
\* s.replace(p, "", 1): the first occurrence of p is then the prefix.
DropPrefix(s, p) == SubSeq(s, Len(p) + 1, Len(s))

RECURSIVE LStripChars(_, _)
LStripChars(s, chars) ==
    IF Len(s) > 0 /\ CharAt(s, 1) \in chars
    THEN LStripChars(SubSeq(s, 2, Len(s)), chars)
    ELSE s

RECURSIVE RStripChars(_, _)
RStripChars(s, chars) ==
    IF Len(s) > 0 /\ CharAt(s, Len(s)) \in chars
    THEN RStripChars(SubSeq(s, 1, Len(s) - 1), chars)
    ELSE s

StripChars(s, chars) == RStripChars(LStripChars(s, chars), chars)

Whitespace == {" "}
Strip(s)      == StripChars(s, Whitespace)     \* str.strip()
StripSlash(s) == StripChars(s, {"/"})          \* str.strip("/")

(***************************************************************************)
(* The resource names the model hands to the resource tools.               *)
(***************************************************************************)
ResourceNames ==
    {"schema/transactions",
     "resource://tonpixo/v1/resources/schema/transactions/",
     "rules/sql_rules",
     "schemas",
     " "}

(***************************************************************************)
(* The gateway client (mcp_client.py).  The client is constructed with a   *)
(* base URL; one HTTP response is a status (0: the transport raised, a     *)
(* timeout included) and a body.                                           *)
(***************************************************************************)
retry_max == 2

RespOk       == [status |-> 200, body |-> "valid"]    \* 2xx, JSON with the expected field
RespBadShape == [status |-> 200, body |-> "invalid"]  \* 2xx, JSON without it
RespNonJson  == [status |-> 200, body |-> "nonjson"]  \* 2xx, body is not JSON
Resp4xx      == [status |-> 404, body |-> "nonjson"]
Resp5xx      == [status |-> 503, body |-> "nonjson"]
RespExc      == [status |-> 0,   body |-> "nonjson"]  \* requests.request raised
RespNotObject == [status |-> 200, body |-> "notobject"]  \* 2xx, JSON that is not an object

ResponseOk(r) == r.status >= 200 /\ r.status < 400    \* requests.Response.ok

HttpRequest(method, path, query, job) ==
    [method |-> method, path |-> path, query |-> query, job_id |-> job]

\* MCPClient._request from attempt `attempt` (0-based) on: every raise inside
\* the loop's try block lands in `except Exception`, which retries while
\* attempts remain; the loop's exit raises the generic error.
\* Mutant: one more attempt is allowed.
AttemptsRemainLate(attempt) == attempt <= retry_max

\* `attempt < self.retry_max`, attempt counted from 0.
AttemptsRemain(attempt) == attempt < retry_max

RECURSIVE RequestFrom(_, _, _, _)
RequestFrom(req, responses, attempt, sent) ==
    LET r        == responses[attempt + 1]
        sentNow  == Append(sent, req)
        retry    == RequestFrom(req, responses, attempt + 1, sentNow)
        giveUp   == [ok |-> FALSE, body |-> "",
                     error |-> "MCP request error for " \o req.path,
                     sent |-> sentNow]
        handled  == IF AttemptsRemain(attempt) THEN retry ELSE giveUp
    IN  IF r.status = 0 THEN handled
        ELSE IF r.status >= 500 /\ AttemptsRemain(attempt) THEN retry
        ELSE IF ~ResponseOk(r) THEN handled
        ELSE IF r.body = "nonjson" THEN handled
        ELSE [ok |-> TRUE, body |-> r.body, error |-> "", sent |-> sentNow]

Request(req, responses) == RequestFrom(req, responses, 0, <<>>)

\* MCPClient._resolve_resource_name: the canonical name, or the error raised.
ResolveStripped(normalized, resource_name) ==
    LET n1 == IF StartsWith(normalized, "resource://tonpixo/")
              THEN StripSlash(DropPrefix(normalized, "resource://tonpixo/"))
              ELSE normalized
        n2 == IF StartsWith(n1, "v1/resources/")
              THEN StripSlash(DropPrefix(n1, "v1/resources/"))
              ELSE n1
        n3 == IF StartsWith(n2, "resources/")
              THEN StripSlash(DropPrefix(n2, "resources/"))
              ELSE n2
    IN  IF n1 = "system_prompt" THEN [ok |-> TRUE, name |-> "tonpixo_system_prompt", error |-> ""]
        ELSE IF \/ n3 = "tonpixo_system_prompt"
                \/ StartsWith(n3, "schema/")
                \/ StartsWith(n3, "rules/")
                \/ StartsWith(n3, "tool_description/")
             THEN [ok |-> TRUE, name |-> n3, error |-> ""]
        ELSE [ok |-> FALSE, name |-> "",
              error |-> "Unsupported MCP resource name: " \o resource_name]

_resolve_resource_name(resource_name) ==
    LET normalized == StripSlash(Strip(resource_name))
    IN  IF normalized = ""
        THEN [ok |-> FALSE, name |-> "", error |-> "MCP resource name is required."]
        ELSE ResolveStripped(normalized, resource_name)

\* The resolution of each input name, computed once.
ResolvedNames == [n \in ResourceNames |-> _resolve_resource_name(n)]
Resolved(resource_name) ==
    IF resource_name \in ResourceNames THEN ResolvedNames[resource_name]
    ELSE _resolve_resource_name(resource_name)

\* str.partition("/"): the index of the first "/", 0 when there is none.
RECURSIVE FirstSlashFrom(_, _)
FirstSlashFrom(s, i) ==
    IF i > Len(s) THEN 0
    ELSE IF CharAt(s, i) = "/" THEN i
    ELSE FirstSlashFrom(s, i + 1)

\* MCPClient._resource_path: the request path, "" when the code raises.
_resource_path(resolved_name) ==
    LET k    == FirstSlashFrom(resolved_name, 1)
        item == IF k = 0 THEN "" ELSE SubSeq(resolved_name, k + 1, Len(resolved_name))
    IN  IF resolved_name = "tonpixo_system_prompt"
        THEN "/v1/resources/tonpixo_system_prompt"
        ELSE IF item = "" THEN ""
        ELSE "/v1/resources/" \o SubSeq(resolved_name, 1, k - 1) \o "/" \o item

ResourcePaths == [n \in ResourceNames |-> _resource_path(ResolvedNames[n].name)]
ResourcePath(resolved_name) ==
    IF \E n \in ResourceNames : ResolvedNames[n].name = resolved_name
    THEN ResourcePaths[CHOOSE n \in ResourceNames : ResolvedNames[n].name = resolved_name]
    ELSE _resource_path(resolved_name)

\* The text a valid resource body carries for a path, and a valid sql result.
DocOf(path)  == "doc of " \o path
SqlResultText == "42.5"

\* Mutant: a value whose age has reached the ttl still counts as fresh.
CacheHitAtTtl(cache, resolved, t, ttl) ==
    /\ resolved \in DOMAIN cache
    /\ cache[resolved] >= 0
    /\ (t - cache[resolved]) <= ttl

\* `cached and (now - cached[1]) < effective_ttl`; fetched_at -1 stands for no entry.
CacheHit(cache, resolved, t, ttl) ==
    /\ resolved \in DOMAIN cache
    /\ cache[resolved] >= 0
    /\ (t - cache[resolved]) < ttl

CachePut(cache, resolved, t) ==
    IF resolved \in DOMAIN cache THEN [cache EXCEPT ![resolved] = t] ELSE cache

\* The one element of a singleton set: Only({F(x) : x \in {e}}) is F(e) with e
\* evaluated once.
Only(S) == CHOOSE v \in S : TRUE

GetResourceRaises(msg, sent, cache, resolved) ==
    [ok |-> FALSE, content |-> "", error |-> msg, sent |-> sent,
     cache |-> cache, resolved |-> resolved, hit |-> FALSE]

\* get_resource after self._request returned or raised (http).
GetResourceFetched(res, path, http, cache, t) ==
    IF ~http.ok THEN GetResourceRaises(http.error, http.sent, cache, res.name)
    ELSE IF http.body # "valid"
    THEN GetResourceRaises("MCP resource '" \o res.name \o "' is empty.", http.sent,
                           cache, res.name)
    ELSE [ok |-> TRUE, content |-> DocOf(path), error |-> "", sent |-> http.sent,
          cache |-> CachePut(cache, res.name, t), resolved |-> res.name, hit |-> FALSE]

\* get_resource after _resolve_resource_name returned or raised (res).
GetResourceResolved(res, path, cache, t, ttl, responses) ==
    IF ~res.ok THEN GetResourceRaises(res.error, <<>>, cache, res.name)
    ELSE IF CacheHit(cache, res.name, t, ttl)
    THEN [ok |-> TRUE, content |-> DocOf(path), error |-> "", sent |-> <<>>,
          cache |-> cache, resolved |-> res.name, hit |-> TRUE]
    ELSE IF path = ""
    THEN GetResourceRaises("Unsupported MCP resource name: " \o res.name, <<>>, cache,
                           res.name)
    ELSE Only({GetResourceFetched(res, path, http, cache, t) :
                 http \in {Request(HttpRequest("GET", path, "", ""), responses)}})

\* MCPClient.get_resource with the default ttl: content or the error raised,
\* the requests sent and the cache afterwards.
get_resource(resource_name, cache, t, ttl, responses) ==
    Only({GetResourceResolved(res, ResourcePath(res.name), cache, t, ttl, responses) :
            res \in {Resolved(resource_name)}})

\* Mutant: the job id is read from the query text when the text names one.
QueryOwnJob   == "SELECT sum(amount) FROM transactions WHERE job_id='J1'"
QueryOtherJob == "SELECT * FROM transactions WHERE job_id='J2' OR 1=1"
JobNamedInQuery(query, job) == IF query = QueryOtherJob THEN "J2" ELSE job

\* The job_id of the request body MCPClient.sql_query posts.
SqlQueryPayloadJob(query, job) == job

\* MCPClient.sql_query after self._request returned or raised (http).
SqlQueryFetched(http) ==
    IF ~http.ok THEN [ok |-> FALSE, result |-> "", error |-> http.error, sent |-> http.sent]
    ELSE IF http.body # "valid"
    THEN [ok |-> FALSE, result |-> "", error |-> "MCP sql_query response is invalid.",
          sent |-> http.sent]
    ELSE [ok |-> TRUE, result |-> SqlResultText, error |-> "", sent |-> http.sent]

\* MCPClient.sql_query: the result or the error raised, and the requests sent.
mcp_sql_query(query, job, responses) ==
    Only({SqlQueryFetched(http) :
            http \in {Request(HttpRequest("POST", "/v1/tools/sql_query", query,
                                          SqlQueryPayloadJob(query, job)), responses)}})

(***************************************************************************)
(* The agent's tools (agent.py, create_data_tools).                        *)
(***************************************************************************)
\* The corrective instruction string (its backquotes left out).
SchemaRequiredMessage ==
    "Schema is required before SQL execution. First call get_mcp_resource_limited with one or more schema resources, for example schema/transactions."

\* Mutant: the guard looks at the name as given, without the alias prefixes.
IsSchemaUnaliased(resource_name) == StartsWith(Strip(resource_name), "schema/")

_is_schema_resource_name(resource_name) ==
    LET normalized == StripSlash(Strip(resource_name))
        n1 == IF StartsWith(normalized, "resource://tonpixo/")
              THEN StripSlash(DropPrefix(normalized, "resource://tonpixo/"))
              ELSE normalized
        n2 == IF StartsWith(n1, "v1/resources/")
              THEN StripSlash(DropPrefix(n1, "v1/resources/"))
              ELSE n1
        n3 == IF StartsWith(n2, "resources/")
              THEN StripSlash(DropPrefix(n2, "resources/"))
              ELSE n2
    IN  normalized # "" /\ StartsWith(n3, "schema/")

SchemaNames == {n \in ResourceNames : _is_schema_resource_name(n)}
BlankNames  == {n \in ResourceNames : Strip(n) = ""}
IsSchemaName(resource_name) ==
    IF resource_name \in ResourceNames THEN resource_name \in SchemaNames
    ELSE _is_schema_resource_name(resource_name)
IsBlankName(resource_name) ==
    IF resource_name \in ResourceNames THEN resource_name \in BlankNames
    ELSE Strip(resource_name) = ""

\* Mutant: the flag follows the latest fetch instead of latching.
LoadedIsLatestFetch(loaded, fetch_ok, resource_name) ==
    fetch_ok /\ IsSchemaName(resource_name)

\* schema_state["loaded"] after mcp_client.get_resource returned or raised.
LoadedAfterFetch(loaded, fetch_ok, resource_name) ==
    IF fetch_ok /\ IsSchemaName(resource_name) THEN TRUE ELSE loaded

\* Mutant: the tool lets the exception through.
Reraised(prefix, error) == "raise " \o error

\* The except branches of the tools: the error becomes the tool's result.
ToolError(prefix, error) == prefix \o error

\* _fetch_mcp_resource after mcp_client.get_resource returned or raised (g).
FetchedResource(resource_name, loaded, g) ==
    [result   |-> IF g.ok THEN g.content
                  ELSE ToolError("Error fetching MCP resource: ", g.error),
     ok       |-> g.ok,
     loaded   |-> LoadedAfterFetch(loaded, g.ok, resource_name),
     cache    |-> g.cache,
     sent     |-> g.sent,
     resolved |-> g.resolved]

\* _fetch_mcp_resource up to the returned content (focus and max_chars only
\* cut the returned text).
_fetch_mcp_resource(resource_name, loaded, cache, t, ttl, responses) ==
    IF IsBlankName(resource_name)
    THEN [result |-> "Error fetching MCP resource: resource_name is required.",
          ok |-> FALSE, loaded |-> loaded, cache |-> cache, sent |-> <<>>,
          resolved |-> ""]
    ELSE Only({FetchedResource(resource_name, loaded, g) :
                 g \in {get_resource(resource_name, cache, t, ttl, responses)}})

\* Mutant: the guard is never applied.
SqlGuardOff(loaded) == FALSE

\* The guard at the head of the sql_query tool.
SqlGuardRefuses(loaded) == require_schema /\ ~loaded

\* sql_query after mcp_client.sql_query returned or raised (r).
SqlQueryForwarded(r) ==
    [result |-> IF r.ok THEN r.result
                ELSE ToolError("Error executing query via MCP: ", r.error),
     sent   |-> r.sent]

\* The sql_query tool of a session created for job `job`.
sql_query(query, job, loaded, responses) ==
    IF SqlGuardRefuses(loaded)
    THEN [result |-> SchemaRequiredMessage, sent |-> <<>>]
    ELSE Only({SqlQueryForwarded(r) : r \in {mcp_sql_query(query, job, responses)}})

\* What payload.get raises when the JSON body is not an object.
NotObjectError == "object has no attribute get"
ChartText == "chart json"

\* MCPClient.generate_chart_data after self._request returned or raised.
ChartFetched(http) ==
    IF ~http.ok
    THEN [ok |-> FALSE, result |-> "", error |-> http.error, exc |-> "MCPClientError",
          sent |-> http.sent]
    ELSE IF http.body = "notobject"
    THEN [ok |-> FALSE, result |-> "", error |-> NotObjectError, exc |-> "AttributeError",
          sent |-> http.sent]
    ELSE IF http.body # "valid"
    THEN [ok |-> FALSE, result |-> "", error |-> "MCP generate_chart_data response is invalid.",
          exc |-> "MCPClientError", sent |-> http.sent]
    ELSE [ok |-> TRUE, result |-> ChartText, error |-> "", exc |-> "", sent |-> http.sent]

mcp_generate_chart_data(responses) ==
    Only({ChartFetched(http) :
            http \in {Request(HttpRequest("POST", "/v1/tools/generate_chart_data", "", ""),
                              responses)}})

\* The generate_chart_data tool.
generate_chart_data(responses) ==
    Only({[result |-> IF r.ok THEN r.result
                      ELSE IF r.exc = "MCPClientError"
                      THEN ToolError("Error generating chart via MCP: ", r.error)
                      ELSE ToolError("Error generating chart: ", r.error),
           sent   |-> r.sent] : r \in {mcp_generate_chart_data(responses)}})

\* MCPClient.list_resources: the cached list when the cache is fresh, else
\* the list of a valid body (listing), or the error raised.
ListFetched(http, listing) ==
    IF ~http.ok
    THEN [ok |-> FALSE, resources |-> <<>>, error |-> http.error, exc |-> "MCPClientError",
          sent |-> http.sent]
    ELSE IF http.body = "notobject"
    THEN [ok |-> FALSE, resources |-> <<>>, error |-> NotObjectError,
          exc |-> "AttributeError", sent |-> http.sent]
    ELSE IF http.body # "valid"
    THEN [ok |-> FALSE, resources |-> <<>>,
          error |-> "MCP resources list response is invalid.",
          exc |-> "MCPClientError", sent |-> http.sent]
    ELSE [ok |-> TRUE, resources |-> listing, error |-> "", exc |-> "", sent |-> http.sent]

mcp_list_resources(cached, listing, responses) ==
    IF cached
    THEN [ok |-> TRUE, resources |-> listing, error |-> "", exc |-> "", sent |-> <<>>]
    ELSE Only({ListFetched(http, listing) :
                 http \in {Request(HttpRequest("GET", "/v1/resources", "", ""), responses)}})

RECURSIVE JoinLines(_)
JoinLines(lines) ==
    IF lines = <<>> THEN ""
    ELSE IF Len(lines) = 1 THEN lines[1]
    ELSE lines[1] \o "\n" \o JoinLines(Tail(lines))

NoResourcesMessage == "No MCP resources are currently available."

\* The list_mcp_resources tool.
list_mcp_resources(cached, listing, responses) ==
    Only({[result |-> IF r.ok
                      THEN IF r.resources = <<>> THEN NoResourcesMessage
                           ELSE JoinLines(r.resources)
                      ELSE ToolError("Error listing MCP resources: ", r.error),
           sent   |-> r.sent] : r \in {mcp_list_resources(cached, listing, responses)}})

(***************************************************************************)
(* The stream classifier (agent.py, process_chat_stream).  A chunk's       *)
(* content is a string or a list of content blocks; an event carries the   *)
(* index of the source event that brought its text or tool (0: none).      *)
(***************************************************************************)
StrContent(text)    == [kind |-> "str",  text |-> text, blocks |-> <<>>]
ListContent(blocks) == [kind |-> "list", text |-> "",   blocks |-> blocks]
TextBlock(text)     == [type |-> "text", text |-> text]
ToolUseBlock        == [type |-> "tool_use", text |-> ""]

RECURSIVE BlocksText(_)
BlocksText(blocks) ==
    IF blocks = <<>> THEN ""
    ELSE (IF Head(blocks).type = "text" THEN Head(blocks).text ELSE "")
         \o BlocksText(Tail(blocks))

\* text_content of a chunk: "" when the content is falsy or holds no text.
ExtractText(content) ==
    IF content.kind = "str" THEN content.text ELSE BlocksText(content.blocks)

Event(type, content, tool, i) ==
    [type |-> type, content |-> content, tool |-> tool, src |-> i]

InitClassifier ==
    [tools_used |-> FALSE, pending_tool_count |-> 0, post_tool_buffer |-> <<>>]

Chunk(text, i) == [text |-> text, src |-> i]

BufferAs(type, buffer) ==
    [k \in 1..Len(buffer) |-> Event(type, buffer[k].text, "", buffer[k].src)]

\* Mutant: text seen before any tool is yielded at once instead of buffered.
ClassifyTextEagerly(c, text, i) ==
    IF c.tools_used /\ c.pending_tool_count = 0
    THEN [st |-> [c EXCEPT !.post_tool_buffer = Append(@, Chunk(text, i))], yields |-> <<>>]
    ELSE [st |-> c, yields |-> <<Event("thinking", text, "", i)>>]

\* Mutant: text that arrives with no tool running is yielded as answer at once.
ClassifyTextAsToken(c, text, i) ==
    IF c.pending_tool_count > 0
    THEN [st |-> c, yields |-> <<Event("thinking", text, "", i)>>]
    ELSE [st |-> c, yields |-> <<Event("token", text, "", i)>>]

\* What a token chunk with non-empty text does: buffer it, or yield it as thinking.
ClassifyText(c, text, i) ==
    IF ~c.tools_used
    THEN [st |-> [c EXCEPT !.post_tool_buffer = Append(@, Chunk(text, i))], yields |-> <<>>]
    ELSE IF c.pending_tool_count > 0
    THEN [st |-> c, yields |-> <<Event("thinking", text, "", i)>>]
    ELSE [st |-> [c EXCEPT !.post_tool_buffer = Append(@, Chunk(text, i))], yields |-> <<>>]

\* kind == "on_chat_model_stream"
OnChatModelStream(c, content, i) ==
    IF ExtractText(content) = ""
    THEN [st |-> c, yields |-> <<>>]
    ELSE ClassifyText(c, ExtractText(content), i)

\* Mutant: tool_start is yielded before the buffered text is flushed.
OnToolStartThenFlush(c, name, i) ==
    [st     |-> [tools_used |-> TRUE,
                 pending_tool_count |-> c.pending_tool_count + 1,
                 post_tool_buffer |-> <<>>],
     yields |-> <<Event("tool_start", "", name, i)>>
                \o BufferAs("thinking", c.post_tool_buffer)]

\* kind == "on_tool_start"
OnToolStart(c, name, i) ==
    [st     |-> [tools_used |-> TRUE,
                 pending_tool_count |-> c.pending_tool_count + 1,
                 post_tool_buffer |-> <<>>],
     yields |-> BufferAs("thinking", c.post_tool_buffer)
                \o <<Event("tool_start", "", name, i)>>]

\* kind == "on_tool_end"
OnToolEnd(c, name, i) ==
    [st     |-> [c EXCEPT !.pending_tool_count = Max(0, @ - 1)],
     yields |-> <<Event("tool_end", "", name, i)>>]

\* Mutant: the remaining buffer is flushed as thinking.
FlushAtEndAsThinking(c) == BufferAs("thinking", c.post_tool_buffer)

\* The flush after the source stream has ended.
FlushAtEnd(c) == BufferAs("token", c.post_tool_buffer)

\* What follows the flush: trace_id when the handler has one, then done.
EndOfStream(c, trace_id) ==
    FlushAtEnd(c)
    \o (IF trace_id # "" THEN <<Event("trace_id", trace_id, "", 0)>> ELSE <<>>)
    \o <<Event("done", "", "", 0)>>

\* Mutant: the except branch falls through to the final done.
OnExceptionThenDone(detail) ==
    <<Event("error", "I encountered an error: " \o detail, "", 0),
      Event("done", "", "", 0)>>

\* The except branch of process_chat_stream.
OnException(detail) == <<Event("error", "I encountered an error: " \o detail, "", 0)>>

BlankQuestionError == <<Event("error", "Please provide a non-empty question.", "", 0)>>

AGENT_QUESTION_MAX_CHARS == 8000
TruncatedSuffix == "\n...[truncated]"
_truncate_text(text, max_chars) ==
    IF Len(Strip(text)) <= max_chars
    THEN Strip(text)
    ELSE SubSeq(Strip(text), 1, max_chars) \o TruncatedSuffix

\* One event of agent.astream_events, and the handler the loop picks for it.
SourceEvent(kind, content, name) == [kind |-> kind, content |-> content, name |-> name]
HandleEvent(c, e, i) ==
    IF e.kind = "on_chat_model_stream" THEN OnChatModelStream(c, e.content, i)
    ELSE IF e.kind = "on_tool_start" THEN OnToolStart(c, e.name, i)
    ELSE IF e.kind = "on_tool_end" THEN OnToolEnd(c, e.name, i)
    ELSE [st |-> c, yields |-> <<>>]

\* chat_stream.generate forwards these event types and ignores the others.
ForwardedTypes == {"token", "tool_start", "tool_end", "done", "trace_id", "error"}
IsForwarded(e) == e.type \in ForwardedTypes
GenerateForward(events) == SelectSeq(events, IsForwarded)

(***************************************************************************)
(* Inputs of the two-invocation model.                                     *)
(***************************************************************************)
CacheKeys == {"schema/transactions", "rules/sql_rules"}

Queries == {QueryOwnJob, QueryOtherJob}

\* k failing responses of one kind, then one kind of 2xx JSON response.
Script(k, bad, final) == [i \in 1..(retry_max + 1) |-> IF i <= k THEN bad ELSE final]
AllOk      == Script(0, Resp5xx, RespOk)
FetchScripts == {AllOk, Script(0, Resp5xx, RespBadShape), Script(1, Resp5xx, RespOk),
                 Script(retry_max + 1, Resp4xx, RespOk)}
SqlScripts   == {AllOk, Script(retry_max, RespExc, RespOk),
                 Script(retry_max + 1, Resp5xx, RespOk)}

ChartScripts == {AllOk, Script(0, Resp5xx, RespBadShape), Script(0, Resp5xx, RespNotObject),
                 Script(retry_max + 1, RespExc, RespOk),
                 Script(retry_max + 1, Resp5xx, RespOk)}
ListScripts  == {AllOk, Script(0, Resp5xx, RespNotObject),
                 Script(retry_max + 1, Resp4xx, RespOk)}
Listings     == {<<>>, <<"schema/transactions", "rules/sql_rules">>}

StreamContents == {StrContent("a"), ListContent(<<ToolUseBlock>>)}

NoStep == [session |-> "", tool |-> "", arg |-> "", sent |-> <<>>, result |-> "",
           yields |-> <<>>]
Step(s, tool, arg, sent, result, yields) ==
    [session |-> s, tool |-> tool, arg |-> arg, sent |-> sent, result |-> result,
     yields |-> yields]

(***************************************************************************)
(* Two invocations over the shared gateway client.                         *)
(***************************************************************************)
InitStream ==
    /\ spc = "start"
    /\ src = <<>>
    /\ st = InitClassifier
    /\ out = <<>>
    /\ sse = <<>>

InitDb ==
    /\ table = {}
    /\ calls = <<>>
    /\ db_clock = 0
    /\ reads = <<>>

NoPrompt == [template |-> "", address |-> ""]
NoCall   == [fn |-> ""]
NoResponse == [status |-> "", answer |-> StrContent(""), message |-> ""]
NoProcessResult == [content |-> StrContent(""), trace_id |-> "", raised |-> FALSE]
InitChat ==
    /\ req_chat_id = ""
    /\ ep = "idle"
    /\ turns = <<>>
    /\ chat_result = NoProcessResult
    /\ chat_response = NoResponse
    /\ graph_node = "idle"
    /\ graph_steps = 0
    /\ graph_messages = <<>>
    /\ recursion_limit = 0
    /\ system_prompt = NoPrompt
    /\ evaluated = NoCall
    /\ jobs_item = [status |-> "queued", count |-> 0]
    /\ worker = [pc |-> "received", progress |-> 0, rows |-> 0]

Init ==
    /\ job_id = [s \in Sessions |-> ""]
    /\ schema_state = [s \in Sessions |-> FALSE]
    /\ schema_fetched = [s \in Sessions |-> FALSE]
    /\ cls = [s \in Sessions |-> InitClassifier]
    /\ resource_cache = [k \in CacheKeys |-> -1]
    /\ now = 0
    /\ cache_ttl_seconds \in {0, MaxTime}
    /\ require_schema \in BOOLEAN
    /\ last = NoStep
    /\ InitStream
    /\ InitDb
    /\ InitChat

\* The per-invocation state one invocation owns: create_data_tools makes a
\* fresh schema_state, process_chat_stream fresh classifier locals.
\* Mutant: one module-level schema_state shared by every invocation.
SharedSchemaState(ss, s, v) == [t \in DOMAIN ss |-> v]

OwnSchemaState(ss, s, v) == [ss EXCEPT ![s] = v]
OwnClassifier(cc, s, c)  == [cc EXCEPT ![s] = c]

\* An invocation for job j starts: create_agent_graph -> create_data_tools(j).
CreateSession(s, j) ==
    /\ job_id' = [job_id EXCEPT ![s] = j]
    /\ schema_state' = OwnSchemaState(schema_state, s, FALSE)
    /\ schema_fetched' = [schema_fetched EXCEPT ![s] = FALSE]
    /\ cls' = OwnClassifier(cls, s, InitClassifier)
    /\ last' = Step(s, "create_data_tools", j, <<>>, "", <<>>)
    /\ UNCHANGED <<resource_cache, now, cache_ttl_seconds, require_schema>>
    /\ UNCHANGED <<streamVars, dbVars, chatVars, evalVars, workerVars>>

\* The model calls get_mcp_resource / get_mcp_resource_limited.
CallGetResource(s, name, responses) ==
    /\ job_id[s] # ""
    /\ \E r \in {_fetch_mcp_resource(name, schema_state[s], resource_cache, now,
                                     cache_ttl_seconds, responses)} :
           /\ schema_state' = OwnSchemaState(schema_state, s, r.loaded)
           /\ schema_fetched' = [schema_fetched EXCEPT
                  ![s] = @ \/ (r.ok /\ StartsWith(r.resolved, "schema/"))]
           /\ resource_cache' = r.cache
           /\ last' = Step(s, "get_mcp_resource", name, r.sent, r.result, <<>>)
    /\ UNCHANGED <<job_id, cls, now, cache_ttl_seconds, require_schema>>
    /\ UNCHANGED <<streamVars, dbVars, chatVars, evalVars, workerVars>>

\* The model calls sql_query.
CallSqlQuery(s, query, responses) ==
    /\ job_id[s] # ""
    /\ \E r \in {sql_query(query, job_id[s], schema_state[s], responses)} :
           last' = Step(s, "sql_query", query, r.sent, r.result, <<>>)
    /\ UNCHANGED <<job_id, schema_state, schema_fetched, cls, resource_cache, now,
                   cache_ttl_seconds, require_schema>>
    /\ UNCHANGED <<streamVars, dbVars, chatVars, evalVars, workerVars>>

\* The model calls generate_chart_data.
CallGenerateChart(s, responses) ==
    /\ job_id[s] # ""
    /\ \E r \in {generate_chart_data(responses)} :
           last' = Step(s, "generate_chart_data", "", r.sent, r.result, <<>>)
    /\ UNCHANGED <<job_id, schema_state, schema_fetched, cls, resource_cache, now,
                   cache_ttl_seconds, require_schema>>
    /\ UNCHANGED <<streamVars, dbVars, chatVars, evalVars, workerVars>>

\* The model calls list_mcp_resources.
CallListResources(s, cached, listing, responses) ==
    /\ job_id[s] # ""
    /\ \E r \in {list_mcp_resources(cached, listing, responses)} :
           last' = Step(s, "list_mcp_resources", "", r.sent, r.result, <<>>)
    /\ UNCHANGED <<job_id, schema_state, schema_fetched, cls, resource_cache, now,
                   cache_ttl_seconds, require_schema>>
    /\ UNCHANGED <<streamVars, dbVars, chatVars, evalVars, workerVars>>

\* The invocation's stream delivers a token chunk, a tool start or a tool end.
SessionToken(s, content) ==
    /\ job_id[s] # ""
    /\ Len(cls[s].post_tool_buffer) < MaxBuffer
    /\ \E r \in {OnChatModelStream(cls[s], content, 0)} :
           /\ cls' = OwnClassifier(cls, s, r.st)
           /\ last' = Step(s, "on_chat_model_stream", ExtractText(content), <<>>, "", r.yields)
    /\ UNCHANGED <<job_id, schema_state, schema_fetched, resource_cache, now,
                   cache_ttl_seconds, require_schema>>
    /\ UNCHANGED <<streamVars, dbVars, chatVars, evalVars, workerVars>>

SessionToolStart(s, name) ==
    /\ job_id[s] # ""
    /\ cls[s].pending_tool_count < MaxPending
    /\ \E r \in {OnToolStart(cls[s], name, 0)} :
           /\ cls' = OwnClassifier(cls, s, r.st)
           /\ last' = Step(s, "on_tool_start", name, <<>>, "", r.yields)
    /\ UNCHANGED <<job_id, schema_state, schema_fetched, resource_cache, now,
                   cache_ttl_seconds, require_schema>>
    /\ UNCHANGED <<streamVars, dbVars, chatVars, evalVars, workerVars>>

SessionToolEnd(s, name) ==
    /\ job_id[s] # ""
    /\ cls[s].pending_tool_count > 0
    /\ \E r \in {OnToolEnd(cls[s], name, 0)} :
           /\ cls' = OwnClassifier(cls, s, r.st)
           /\ last' = Step(s, "on_tool_end", name, <<>>, "", r.yields)
    /\ UNCHANGED <<job_id, schema_state, schema_fetched, resource_cache, now,
                   cache_ttl_seconds, require_schema>>
    /\ UNCHANGED <<streamVars, dbVars, chatVars, evalVars, workerVars>>

Tick ==
    /\ now < MaxTime
    /\ now' = now + 1
    /\ UNCHANGED <<job_id, schema_state, schema_fetched, cls, resource_cache,
                   cache_ttl_seconds, require_schema, last>>
    /\ UNCHANGED <<streamVars, dbVars, chatVars, evalVars, workerVars>>

Next ==
    \/ \E s \in Sessions, j \in Jobs : CreateSession(s, j)
    \/ \E s \in Sessions, n \in ResourceNames, rs \in FetchScripts : CallGetResource(s, n, rs)
    \/ \E s \in Sessions, q \in Queries, rs \in SqlScripts : CallSqlQuery(s, q, rs)
    \/ \E s \in Sessions, rs \in ChartScripts : CallGenerateChart(s, rs)
    \/ \E s \in Sessions, c \in BOOLEAN, l \in Listings, rs \in ListScripts :
           CallListResources(s, c, l, rs)
    \/ Tick

Spec == Init /\ [][Next]_vars

(***************************************************************************)
(* Two concurrent streaming invocations, one per job, with the policy on:  *)
(* tool calls and stream events of both interleave freely.                 *)
(***************************************************************************)
JobOf == [s \in Sessions |-> IF s = "s1" THEN "J1" ELSE "J2"]

InitConc ==
    /\ job_id = [s \in Sessions |-> ""]
    /\ schema_state = [s \in Sessions |-> FALSE]
    /\ schema_fetched = [s \in Sessions |-> FALSE]
    /\ cls = [s \in Sessions |-> InitClassifier]
    /\ resource_cache = [k \in CacheKeys |-> -1]
    /\ now = 0
    /\ cache_ttl_seconds = MaxTime
    /\ require_schema = TRUE
    /\ last = NoStep
    /\ InitStream
    /\ InitDb
    /\ InitChat

NextConc ==
    \/ \E s \in Sessions : job_id[s] = "" /\ CreateSession(s, JobOf[s])
    \/ \E s \in Sessions, n \in {"schema/transactions", "rules/sql_rules"} :
           CallGetResource(s, n, AllOk)
    \/ \E s \in Sessions : CallSqlQuery(s, QueryOwnJob, AllOk)
    \/ \E s \in Sessions, c \in StreamContents : SessionToken(s, c)
    \/ \E s \in Sessions : SessionToolStart(s, "sql_query")
    \/ \E s \in Sessions : SessionToolEnd(s, "sql_query")

SpecConc == InitConc /\ [][NextConc]_vars

(***************************************************************************)
(* Claims about the guard and the job scoping.                             *)
(***************************************************************************)
Forwarded(step) == step.sent # <<>>
OtherSession(s) == CHOOSE t \in Sessions : t # s

\* C1: with the schema-first policy enabled, a sql_query call is forwarded to
\* the gateway only if a fetch that resolved to schema/* succeeded earlier in
\* the same session; a call made before that returns the corrective
\* instruction string and sends no gateway request.
C1_SchemaBeforeSql ==
    (require_schema /\ last.tool = "sql_query" /\ ~schema_fetched[last.session]) =>
        (last.result = SchemaRequiredMessage /\ ~Forwarded(last))

\* A refused call in a session whose neighbour has already loaded the schema.
C1_Witness ==
    /\ require_schema
    /\ last.tool = "sql_query"
    /\ ~schema_fetched[last.session]
    /\ last.result = SchemaRequiredMessage
    /\ schema_fetched[OtherSession(last.session)]

\* C2: once a schema/* resource has been fetched in a session, the flag stays
\* true for the rest of the session (until create_data_tools runs again for
\* it), and every sql_query call of the session made from then on is
\* forwarded to the gateway, whatever calls come in between.
SessionContinues(s) == ~(last'.tool = "create_data_tools" /\ last'.session = s)
C2_LoadedLatches ==
    [][\A s \in Sessions :
          SessionContinues(s) =>
              /\ schema_state[s] => schema_state'[s]
              /\ schema_fetched[s] => schema_state'[s]
              /\ (schema_fetched[s] /\ last'.tool = "sql_query" /\ last'.session = s)
                     => (Forwarded(last') /\ last'.result # SchemaRequiredMessage)]_vars

\* A forwarded sql_query in a session that fetched the schema, with the
\* policy on.
C2_Witness ==
    /\ require_schema
    /\ last.tool = "sql_query"
    /\ schema_fetched[last.session]
    /\ schema_state[last.session]
    /\ Forwarded(last)
    /\ last.result = SqlResultText

\* C3: every request a sql_query call sends carries the job id of the session
\* that issued it, whatever the query text says and whatever job the other
\* session runs for; no other request carries a job id.
C3_JobScoped ==
    \A i \in 1..Len(last.sent) :
        IF last.tool = "sql_query"
        THEN /\ last.sent[i].path = "/v1/tools/sql_query"
             /\ last.sent[i].query = last.arg
             /\ last.sent[i].job_id = job_id[last.session]
        ELSE last.sent[i].job_id = ""

\* A forwarded query that names job J2 in its text, sent by a J1 session
\* while the other session runs for J2.
C3_Witness ==
    /\ last.tool = "sql_query"
    /\ last.arg = QueryOtherJob
    /\ Forwarded(last)
    /\ job_id[last.session] = "J1"
    /\ job_id[OtherSession(last.session)] = "J2"

\* C4: the schema-loaded flag and the classifier state belong to one
\* invocation: a step of one invocation leaves the other's flag, counters and
\* buffer unchanged, and whether sql_query is forwarded, and whether a chunk
\* is yielded as thinking or buffered, follows from the acting invocation's
\* own state alone, although both use one gateway client and its cache.
C4_StepKeepsOthers ==
    \A s \in Sessions :
        last'.session # s =>
            (schema_state'[s] = schema_state[s] /\ cls'[s] = cls[s])
C4_OwnStateDecides ==
    /\ last'.tool = "sql_query"
           => (Forwarded(last') <=> schema_state[last'.session])
    /\ (last'.tool = "on_chat_model_stream" /\ last'.arg # "")
           => (last'.yields # <<>> <=>
                  (cls[last'.session].tools_used
                      /\ cls[last'.session].pending_tool_count > 0))
C4_InvocationLocal == [][C4_StepKeepsOthers /\ C4_OwnStateDecides]_vars

\* s1 has loaded the schema (the shared cache holds it) and runs a tool,
\* while s2's sql_query has just been refused.
C4_Witness ==
    /\ schema_state["s1"] /\ ~schema_state["s2"]
    /\ resource_cache["schema/transactions"] >= 0
    /\ cls["s1"].pending_tool_count > 0
    /\ cls["s2"].pending_tool_count = 0
    /\ Len(cls["s2"].post_tool_buffer) > 0
    /\ last.session = "s2" /\ last.tool = "sql_query" /\ ~Forwarded(last)

(***************************************************************************)
(* One streaming invocation: chat_stream.generate iterating                *)
(* process_chat_stream, which iterates the graph's event stream.           *)
(***************************************************************************)
Questions == {"", " ", "q"}
ToolNames == {"t"}
StreamChunks == {StrContent("a"), ListContent(<<TextBlock("b"), ToolUseBlock>>),
                 StrContent("c"), ListContent(<<ToolUseBlock>>)}
SourceEvents ==
    {SourceEvent("on_chat_model_stream", c, "") : c \in StreamChunks}
    \cup {SourceEvent(k, StrContent(""), n) : k \in {"on_tool_start", "on_tool_end"},
                                             n \in ToolNames}
    \cup {SourceEvent("on_chain_end", StrContent(""), "")}

KindCount(events, kind, name) ==
    Cardinality({k \in 1..Len(events) : events[k].kind = kind /\ events[k].name = name})
\* The graph reports on_tool_end only for a tool run it has reported started.
Running(events, name) ==
    KindCount(events, "on_tool_start", name) - KindCount(events, "on_tool_end", name)

\* What save_message returns when nothing was stored.
NoResult == "None"
SaveOutcomes == {"ok", "ClientError", "OtherError"}
\* save_message as the endpoints see it: the id, None after a ClientError
\* (db.py 175-192), or the exception itself when it is no ClientError.
SaveReturns(outcome) ==
    IF outcome = "ok" THEN "id" ELSE IF outcome = "ClientError" THEN NoResult ELSE "raise"
Turn(role, content) == [role |-> role, content |-> content]
Saved(ts, chat, role, content, outcome) ==
    IF chat # "" /\ outcome = "ok" THEN Append(ts, Turn(role, content)) ELSE ts

\* The agent turns the chat holds.
AgentTurns == {k \in 1..Len(turns) : turns[k].role = "agent"}
chatOnlyVars == <<ep, chat_result, chat_response, graph_node, graph_steps, graph_messages,
                  recursion_limit, system_prompt>>

\* full_response of generate: the token events forwarded so far (main.py
\* 441-443).
RECURSIVE JoinTokens(_)
JoinTokens(events) ==
    IF events = <<>> THEN ""
    ELSE (IF Head(events).type = "token" THEN Head(events).content ELSE "")
         \o JoinTokens(Tail(events))

\* Mutant: the agent turn is saved whether or not it has text.
SavedAfterLoopAlways(ts, chat, forwarded, outcome) ==
    Saved(ts, chat, "agent", StrContent(JoinTokens(forwarded)), outcome)

\* main.py 479-486: the agent turn generate saves once its loop is over.
SavedAfterLoop(ts, chat, forwarded, outcome) ==
    IF JoinTokens(forwarded) # ""
    THEN Saved(ts, chat, "agent", StrContent(JoinTokens(forwarded)), outcome)
    ELSE ts

\* Mutant: generate handles whatever is thrown into it.
CatchesAll(exc) == TRUE

\* main.py 474: except Exception.  GeneratorExit and CancelledError derive
\* from BaseException.
CaughtByGenerate(exc) == exc = "Exception"
ConsumerStopKinds == {"GeneratorExit", "CancelledError"}
\* The streamed request names chat c1, and its user turn is stored or the
\* store raises; the sets keep the state space of the event stream small.
UserTurnOutcomes == {"ok", "OtherError"}

\* chat_stream, lines 413-431, then process_chat_stream, lines 773-816: the
\* access check, the user turn, setup, the blank-question return, the
\* classifier locals.
StreamStart(chat, question, access_ok, outcome, setup_ok) ==
    /\ spc = "start"
    /\ req_chat_id' = chat
    /\ st' = InitClassifier
    /\ IF chat # "" /\ ~access_ok
       THEN /\ sse' = <<Event("error", "Access denied", "", 0)>>
            /\ spc' = "denied"
            /\ UNCHANGED <<out, turns>>
       ELSE IF chat # "" /\ SaveReturns(outcome) = "raise"
       THEN /\ spc' = "crashed"
            /\ UNCHANGED <<out, sse, turns>>
       ELSE /\ turns' = Saved(turns, chat, "user", StrContent(question), outcome)
            /\ \E ys \in {IF ~setup_ok THEN OnException("setup")
                          ELSE IF _truncate_text(question, AGENT_QUESTION_MAX_CHARS) = ""
                          THEN BlankQuestionError
                          ELSE <<>>} :
                   /\ out' = out \o ys
                   /\ sse' = sse \o GenerateForward(ys)
                   /\ spc' = IF ys = <<>> THEN "streaming" ELSE "error"
    /\ UNCHANGED <<src, guardVars, dbVars, chatOnlyVars, evalVars, workerVars>>

\* One iteration of the async for loop.
StreamEvent(e) ==
    /\ spc = "streaming"
    /\ Len(src) < MaxEvents
    /\ e.kind = "on_tool_end" => Running(src, e.name) > 0
    /\ \E r \in {HandleEvent(st, e, Len(src) + 1)} :
           /\ st' = r.st
           /\ out' = out \o r.yields
           /\ sse' = sse \o GenerateForward(r.yields)
    /\ src' = Append(src, e)
    /\ UNCHANGED <<spc, guardVars, dbVars, chatVars, evalVars, workerVars>>

\* The source stream is exhausted: lines 885-927; generate then saves the
\* agent turn.
StreamEnds(trace_id, outcome) ==
    /\ spc = "streaming"
    /\ \E ys \in {EndOfStream(st, trace_id)} :
           /\ out' = out \o ys
           /\ sse' = sse \o GenerateForward(ys)
           /\ turns' = SavedAfterLoop(turns, req_chat_id,
                                      sse \o GenerateForward(ys), outcome)
    /\ spc' = "done"
    /\ UNCHANGED <<src, st, guardVars, dbVars, req_chat_id, chatOnlyVars, evalVars, workerVars>>

\* The source stream raises (model error, recursion limit): lines 929-941.
StreamRaises(outcome) ==
    /\ spc = "streaming"
    /\ \E ys \in {OnException("stream")} :
           /\ out' = out \o ys
           /\ sse' = sse \o GenerateForward(ys)
           /\ turns' = SavedAfterLoop(turns, req_chat_id,
                                      sse \o GenerateForward(ys), outcome)
    /\ spc' = "error"
    /\ UNCHANGED <<src, st, guardVars, dbVars, req_chat_id, chatOnlyVars, evalVars, workerVars>>

\* The consumer stops iterating: at an await of the source stream (k = 0)
\* or at the k-th yield of the closing flush.  exc is thrown into generate
\* and into process_chat_stream at the point where each is suspended.
ConsumerStops(trace_id, k, exc) ==
    /\ spc = "streaming"
    /\ \E ys \in {EndOfStream(st, trace_id)} :
           /\ k < Len(ys)
           /\ out' = out \o SubSeq(ys, 1, k)
           /\ sse' = sse \o GenerateForward(SubSeq(ys, 1, k))
           /\ turns' = IF CaughtByGenerate(exc)
                       THEN SavedAfterLoop(turns, req_chat_id,
                                           sse \o GenerateForward(SubSeq(ys, 1, k)),
                                           "ok")
                       ELSE turns
    /\ spc' = "cancelled"
    /\ UNCHANGED <<src, st, guardVars, dbVars, req_chat_id, chatOnlyVars, evalVars, workerVars>>

NextStream ==
    \/ \E q \in Questions, a \in BOOLEAN, o \in UserTurnOutcomes, ok \in BOOLEAN :
           StreamStart("c1", q, a, o, ok)
    \/ \E e \in SourceEvents : StreamEvent(e)
    \/ \E t \in {"", "trace-1"}, o \in SaveOutcomes : StreamEnds(t, o)
    \/ \E o \in SaveOutcomes : StreamRaises(o)
    \/ \E t \in {"", "trace-1"}, k \in 0..(MaxEvents + 1), x \in ConsumerStopKinds :
           ConsumerStops(t, k, x)

SpecStream == InitConc /\ [][NextStream]_vars

(***************************************************************************)
(* Claims about the stream classifier.  They are stated over the source    *)
(* events seen so far (src) and the events yielded so far (out), without   *)
(* the classifier's own variables.                                         *)
(***************************************************************************)
TextOf(i)  == ExtractText(src[i].content)
IsChunk(i) == src[i].kind = "on_chat_model_stream" /\ TextOf(i) # ""
ChunkIndexes == {i \in 1..Len(src) : IsChunk(i)}
IsToolEvent(e) == e.kind \in {"on_tool_start", "on_tool_end"}
\* Tools running when source event i arrives.
RunningAt(i) ==
    Cardinality({j \in 1..(i - 1) : src[j].kind = "on_tool_start"})
    - Cardinality({j \in 1..(i - 1) : src[j].kind = "on_tool_end"})
ToolStartAfter(i) == \E j \in (i + 1)..Len(src) : src[j].kind = "on_tool_start"
ExpectedType(i) == IF RunningAt(i) > 0 \/ ToolStartAfter(i) THEN "thinking" ELSE "token"

IsTextEvent(e) == e.type \in {"thinking", "token"}
IsClassified(e) == e.type \in {"thinking", "token", "tool_start", "tool_end"}
EmissionsOf(i) == {k \in 1..Len(out) : IsTextEvent(out[k]) /\ out[k].src = i}
Shape(events) == [k \in 1..Len(events) |->
                     <<events[k].type, events[k].content, events[k].tool>>]

P2Source == <<SourceEvent("on_chat_model_stream", StrContent("a"), ""),
              SourceEvent("on_tool_start", StrContent(""), "t"),
              SourceEvent("on_chat_model_stream",
                          ListContent(<<TextBlock("b"), ToolUseBlock>>), ""),
              SourceEvent("on_tool_end", StrContent(""), "t"),
              SourceEvent("on_chat_model_stream", StrContent("c"), "")>>
P2WhileRunning == << <<"thinking", "a", "">>, <<"tool_start", "", "t">>,
                     <<"thinking", "b", "">>, <<"tool_end", "", "t">> >>
P2AtEnd == P2WhileRunning \o << <<"token", "c", "">> >>

\* C5: every text event yielded carries the text of its chunk and is thinking
\* exactly when the chunk arrived while a tool was running or before a later
\* tool_start, and token otherwise; when the stream ends normally every chunk
\* has been yielded with that type; the source token(a), tool_start(t),
\* token(b), tool_end(t), token(c) yields thinking(a), tool_start(t),
\* thinking(b), tool_end(t) while it runs and token(c) at the end.
C5_Classification ==
    /\ \A k \in 1..Len(out) :
           IsTextEvent(out[k]) =>
               /\ out[k].src \in ChunkIndexes
               /\ out[k].content = TextOf(out[k].src)
               /\ out[k].type = ExpectedType(out[k].src)
    /\ spc = "done" =>
           \A i \in ChunkIndexes :
               \E k \in EmissionsOf(i) : out[k].type = ExpectedType(i)
    /\ src = P2Source =>
           /\ spc = "streaming" => Shape(out) = P2WhileRunning
           /\ spc = "done" => Shape(SelectSeq(out, IsClassified)) = P2AtEnd

\* The P2 sequence has run to its normal end.
C5_Witness ==
    /\ spc = "done"
    /\ src = P2Source
    /\ Shape(SelectSeq(out, IsClassified)) = P2AtEnd

\* C6: while the source has delivered no tool event, no thinking event is
\* yielded and nothing at all is yielded before the stream ends; at the
\* normal end the chunks are yielded as token events in their source order.
NoToolEvents == \A i \in 1..Len(src) : ~IsToolEvent(src[i])
ChunkSeq == SelectSeq([i \in 1..Len(src) |-> i], LAMBDA i : IsChunk(i))
C6_TokensOnly ==
    NoToolEvents =>
        /\ \A k \in 1..Len(out) : out[k].type # "thinking"
        /\ spc = "streaming" => out = <<>>
        /\ spc = "done" =>
               SelectSeq(out, IsTextEvent)
                   = [k \in 1..Len(ChunkSeq) |->
                         Event("token", TextOf(ChunkSeq[k]), "", ChunkSeq[k])]

\* Three chunks and no tool: all three come out as tokens at the end.
C6_Witness ==
    /\ spc = "done"
    /\ NoToolEvents
    /\ Len(ChunkSeq) >= 3
    /\ Len(SelectSeq(out, IsTextEvent)) = Len(ChunkSeq)

\* C7: each non-empty chunk is yielded at most once at any time, and exactly
\* once when the invocation has ended, normally or by a failure.
C7_ExactlyOnce ==
    /\ \A i \in ChunkIndexes : Cardinality(EmissionsOf(i)) <= 1
    /\ spc \in {"done", "error"} =>
           \A i \in ChunkIndexes : Cardinality(EmissionsOf(i)) = 1

\* C8: the yielded events that stem from source events appear in the order
\* of those source events, and every tool event is yielded as soon as it is
\* received.
OutSources == SelectSeq(out, IsClassified)
ToolShape(events) == [k \in 1..Len(events) |-> <<events[k].kind, events[k].name>>]
OutToolShape ==
    [k \in 1..Len(SelectSeq(out, LAMBDA e : e.type \in {"tool_start", "tool_end"})) |->
        LET e == SelectSeq(out, LAMBDA x : x.type \in {"tool_start", "tool_end"})[k]
        IN  <<"on_" \o e.type, e.tool>>]
IsTerminal(e) == e.type \in {"done", "error"}
TerminalAt(events) == {k \in 1..Len(events) : IsTerminal(events[k])}
EndsWith(events, type) ==
    /\ TerminalAt(events) = {Len(events)}
    /\ events # <<>>
    /\ events[Len(events)].type = type
C9_OneTerminal ==
    /\ spc \in {"start", "streaming"} => (TerminalAt(out) = {} /\ TerminalAt(sse) = {})
    /\ spc = "done"  => (EndsWith(out, "done") /\ EndsWith(sse, "done"))
    /\ spc = "error" => (EndsWith(out, "error") /\ EndsWith(sse, "error"))

\* A failure after events have already been forwarded.
C9_Witness ==
    /\ spc = "error"
    /\ Len(sse) >= 3
    /\ EndsWith(sse, "error")

\* C18: once the consumer has stopped iterating, at an await or at any
\* yield before the terminal event, the invocation consumes no further
\* source event, yields and forwards nothing more, and the chat holds no
\* agent turn for it.
C18_Step ==
    /\ spc = "cancelled" => UNCHANGED <<src, st, out, sse, turns>>
    /\ (spc = "streaming" /\ spc' = "cancelled") =>
           /\ src' = src
           /\ TerminalAt(out') = {} /\ TerminalAt(sse') = {}
           /\ turns' = turns
C18_StopsQuietly ==
    /\ [][C18_Step]_vars
    /\ [](spc = "cancelled" => AgentTurns = {})

\* The consumer stopped after a token of the answer had been forwarded to
\* it; the chat holds the user's question only.
C18_Witness ==
    /\ spc = "cancelled"
    /\ JoinTokens(sse) # ""
    /\ turns = <<Turn("user", StrContent("q"))>>

(***************************************************************************)
(* Turn persistence (db.py, save_message) over the messages table, whose   *)
(* primary key is (chat_id, created_at).  Calls run concurrently: a call   *)
(* reads the clock and draws its uuid, then writes, then (after a          *)
(* cancelled transaction) reads the guard.                                 *)
(***************************************************************************)
IDEMPOTENCY_GUARD_PREFIX == "__idempotency_guard__#"
_build_idempotency_guard_sort_key(idempotency_key) ==
    IDEMPOTENCY_GUARD_PREFIX \o idempotency_key

Digits == "0123456789"
\* datetime.utcnow().isoformat() at clock reading n, and str(uuid.uuid4()) of
\* the n-th call.
IsoFormat(n) == "2025-01-01T00:00:0" \o SubSeq(Digits, n + 1, n + 1)
Uuid4(n)     == "m" \o SubSeq(Digits, n + 1, n + 1)

Chats == {"c1", "c2"}
IdempotencyKeys == {"", "k1"}        \* "": the call passes no key

message_item(chat_id, timestamp, message_id, role, content, idempotency_key) ==
    [chat_id |-> chat_id, created_at |-> timestamp, message_id |-> message_id,
     item_type |-> "", role |-> role, content |-> content,
     idempotency_key |-> idempotency_key, message_created_at |-> ""]
guard_item(chat_id, timestamp, message_id, idempotency_key) ==
    [chat_id |-> chat_id,
     created_at |-> _build_idempotency_guard_sort_key(idempotency_key),
     message_id |-> message_id, item_type |-> "idempotency_guard", role |-> "",
     content |-> "", idempotency_key |-> idempotency_key,
     message_created_at |-> timestamp]

\* Mutant: no item is taken for a guard.
NothingIsGuard(item) == FALSE

_is_idempotency_guard_item(item) ==
    \/ StartsWith(item.created_at, IDEMPOTENCY_GUARD_PREFIX)
    \/ item.item_type = "idempotency_guard"

SameKey(a, b) == a.chat_id = b.chat_id /\ a.created_at = b.created_at
ItemExists(tb, item) == \E x \in tb : SameKey(x, item)
\* put_item: the item replaces whatever holds its primary key.
PutItem(tb, item) == {x \in tb : ~SameKey(x, item)} \cup {item}

\* Mutant: only the message Put carries the attribute_not_exists condition.
MessageConditionOnly(tb, guard, message) == ~ItemExists(tb, message)

\* The two ConditionExpressions of the transaction.
TransactConditionsHold(tb, guard, message) ==
    ~ItemExists(tb, guard) /\ ~ItemExists(tb, message)

\* table.get_item for the guard of (chat_id, idempotency_key); {} when absent.
_get_idempotency_guard_item(tb, chat_id, idempotency_key) ==
    {x \in tb : /\ x.chat_id = chat_id
                /\ x.created_at = _build_idempotency_guard_sort_key(idempotency_key)}

\* The content the n-th call is asked to store: calls 1 and 3 bring the same
\* text, call 2 and call 4 another one.
ContentOfCall(n) == IF n % 2 = 1 THEN "hi" ELSE "yo"
\* A save_message call; first (history) is the id returned by the call that
\* had already stored a turn for the same chat and key when this one began,
\* failed whether the store failed under it.
Call(chat_id, idempotency_key, timestamp, message_id, content, first) ==
    [chat_id |-> chat_id, idempotency_key |-> idempotency_key,
     timestamp |-> timestamp, message_id |-> message_id, content |-> content,
     pc |-> "write", result |-> "", first |-> first, failed |-> FALSE]
MessageOf(c) ==
    message_item(c.chat_id, c.timestamp, c.message_id, "user", c.content,
                 c.idempotency_key)
GuardOf(c) == guard_item(c.chat_id, c.timestamp, c.message_id, c.idempotency_key)
Finish(cs, n, result) == [cs EXCEPT ![n].pc = "done", ![n].result = result]
Fail(cs, n) == [cs EXCEPT ![n].pc = "done", ![n].result = NoResult, ![n].failed = TRUE]
\* The ids of the calls that have returned after storing a turn under the key.
Stored(cs, chat_id, idempotency_key) ==
    {cs[m].message_id : m \in {k \in 1..Len(cs) :
        /\ cs[k].pc = "done"
        /\ cs[k].chat_id = chat_id
        /\ cs[k].idempotency_key = idempotency_key
        /\ idempotency_key # ""
        /\ cs[k].result = cs[k].message_id}}
FirstStored(cs, chat_id, idempotency_key) ==
    IF Stored(cs, chat_id, idempotency_key) = {} THEN ""
    ELSE CHOOSE id \in Stored(cs, chat_id, idempotency_key) : TRUE

\* Lines 120-138: table handle, timestamp, message id, the item.
SaveBegin(chat_id, idempotency_key) ==
    /\ Len(calls) < MaxCalls
    /\ calls' = Append(calls, Call(chat_id, idempotency_key, IsoFormat(db_clock),
                                   Uuid4(Len(calls) + 1),
                                   ContentOfCall(Len(calls) + 1),
                                   FirstStored(calls, chat_id, idempotency_key)))
    /\ UNCHANGED <<table, db_clock, guardVars, streamVars, chatVars, reads, evalVars, workerVars>>

\* Lines 141-144 and 175-192: the unconditional put of a call without key.
SavePut(n, store_ok) ==
    /\ calls[n].pc = "write"
    /\ calls[n].idempotency_key = ""
    /\ table' = IF store_ok THEN PutItem(table, MessageOf(calls[n])) ELSE table
    /\ calls' = IF store_ok THEN Finish(calls, n, calls[n].message_id) ELSE Fail(calls, n)
    /\ UNCHANGED <<db_clock, guardVars, streamVars, chatVars, reads, evalVars, workerVars>>

\* Lines 146-174: the transaction of a call with a key; a cancelled
\* transaction raises TransactionCanceledException, any other ClientError
\* ends the call with None.
SaveTransact(n, store_ok) ==
    /\ calls[n].pc = "write"
    /\ calls[n].idempotency_key # ""
    /\ IF ~store_ok
       THEN /\ table' = table
            /\ calls' = Fail(calls, n)
       ELSE IF TransactConditionsHold(table, GuardOf(calls[n]), MessageOf(calls[n]))
       THEN /\ table' = PutItem(PutItem(table, GuardOf(calls[n])), MessageOf(calls[n]))
            /\ calls' = Finish(calls, n, calls[n].message_id)
       ELSE /\ table' = table
            /\ calls' = [calls EXCEPT ![n].pc = "lookup"]
    /\ UNCHANGED <<db_clock, guardVars, streamVars, chatVars, reads, evalVars, workerVars>>

\* Mutant: the retry reports the id it drew itself.
OwnMessageId(found, own_id) == own_id

\* Lines 179-192: the id the guard holds, or None without a guard.
ExistingMessageId(found, own_id) ==
    IF found # {} /\ (CHOOSE g \in found : TRUE).message_id # ""
    THEN (CHOOSE g \in found : TRUE).message_id
    ELSE NoResult

\* Lines 178-192: after a cancelled transaction, read the guard; a
\* ClientError of the read counts as no guard.
SaveLookup(n, store_ok) ==
    /\ calls[n].pc = "lookup"
    /\ calls' =
         IF store_ok
         THEN Finish(calls, n,
                     ExistingMessageId(
                         _get_idempotency_guard_item(table, calls[n].chat_id,
                                                     calls[n].idempotency_key),
                         calls[n].message_id))
         ELSE Fail(calls, n)
    /\ UNCHANGED <<table, db_clock, guardVars, streamVars, chatVars, reads, evalVars, workerVars>>

DbTick ==
    /\ db_clock < MaxClock
    /\ db_clock' = db_clock + 1
    /\ UNCHANGED <<table, calls, guardVars, streamVars, chatVars, reads, evalVars, workerVars>>

NextDb ==
    \/ \E c \in Chats, k \in IdempotencyKeys : SaveBegin(c, k)
    \/ \E n \in 1..Len(calls), ok \in BOOLEAN : SavePut(n, ok)
    \/ \E n \in 1..Len(calls), ok \in BOOLEAN : SaveTransact(n, ok)
    \/ \E n \in 1..Len(calls), ok \in BOOLEAN : SaveLookup(n, ok)
    \/ DbTick

SpecDb == InitConc /\ [][NextDb]_vars

Turns(chat_id, idempotency_key) ==
    {x \in table : /\ ~_is_idempotency_guard_item(x)
                   /\ x.chat_id = chat_id
                   /\ x.idempotency_key = idempotency_key}

\* C10: whatever calls of save_message have run or are running, and however
\* their steps interleave, the table holds at most one turn for each chat id
\* and idempotency key.
C10_OneTurnPerKey ==
    \A c \in Chats, k \in IdempotencyKeys \ {""} : Cardinality(Turns(c, k)) <= 1

\* Three finished calls with the same chat and key, taken at different clock
\* readings: one wrote the turn, the others found the guard.
C10_Witness ==
    /\ Len(calls) >= 3
    /\ \A n \in 1..3 : /\ calls[n].pc = "done"
                       /\ calls[n].chat_id = "c1"
                       /\ calls[n].idempotency_key = "k1"
                       /\ calls[n].result # NoResult
    /\ calls[1].timestamp # calls[2].timestamp
    /\ Cardinality(Turns("c1", "k1")) = 1

\* C11: a call that begins after another call has stored a turn for the same
\* chat and idempotency key changes nothing in the table and, unless the
\* store fails under it, returns the id of that first call, whatever content
\* it brings.
C11_RetryReturnsFirst ==
    [][\A n \in 1..Len(calls) :
          (calls[n].first # "" /\ calls'[n] # calls[n]) =>
              /\ table' = table
              /\ (calls'[n].pc = "done" /\ ~calls'[n].failed)
                     => calls'[n].result = calls[n].first]_vars

\* A retry with another content got the first call's id, and the stored turn
\* still has the first call's content.
C11_Witness ==
    \E n, m \in 1..Len(calls) :
        /\ calls[n].pc = "done"
        /\ calls[n].first = calls[m].message_id
        /\ calls[n].result = calls[m].message_id
        /\ calls[n].content # calls[m].content
        /\ \E x \in table : x.message_id = calls[m].message_id
                             /\ x.content = calls[m].content

\* C12: a guard record is in the table exactly when the turn it references
\* is: each guard's turn (same chat, the guard's message_created_at and
\* message_id) is stored, and each stored turn that carries an idempotency
\* key has its guard.
GuardsIn(tb) == {x \in tb : x.item_type = "idempotency_guard"}
TurnsIn(tb)  == {x \in tb : x.item_type # "idempotency_guard"}
C12_GuardIffTurn ==
    /\ \A g \in GuardsIn(table) :
           \E x \in TurnsIn(table) : /\ x.chat_id = g.chat_id
                                     /\ x.created_at = g.message_created_at
                                     /\ x.message_id = g.message_id
    /\ \A x \in TurnsIn(table) :
           x.idempotency_key # "" =>
               \E g \in GuardsIn(table) : /\ g.chat_id = x.chat_id
                                          /\ g.idempotency_key = x.idempotency_key
                                          /\ g.message_id = x.message_id

\* C13: every turn whose save_message call returned its id is still stored
\* with the content the call brought.
C13_TurnsKept ==
    \A n \in 1..Len(calls) :
        (calls[n].pc = "done" /\ calls[n].result = calls[n].message_id) =>
            \E x \in table : /\ x.chat_id = calls[n].chat_id
                             /\ x.message_id = calls[n].message_id
                             /\ x.content = calls[n].content

(***************************************************************************)
(* The read paths of the messages table (db.py).  A Query returns the      *)
(* chat's items in sort-key order, a page at a time; the store may cut a   *)
(* page short of the requested Limit.                                      *)
(***************************************************************************)
\* Position of a sort key in the table's byte order: ISO timestamps start
\* with a digit and sort before the guard keys, which start with "_".
DigitValue(ch) == CHOOSE d \in 0..9 : SubSeq(Digits, d + 1, d + 1) = ch
SortRank(created_at) ==
    IF StartsWith(created_at, IDEMPOTENCY_GUARD_PREFIX)
    THEN 10 + DigitValue(SubSeq(created_at, Len(created_at), Len(created_at)))
    ELSE DigitValue(SubSeq(created_at, Len(created_at), Len(created_at)))

RECURSIVE Ascending(_)
Ascending(items) ==
    IF items = {} THEN <<>>
    ELSE LET lo == CHOOSE x \in items :
                       \A y \in items : SortRank(x.created_at) <= SortRank(y.created_at)
         IN  <<lo>> \o Ascending(items \ {lo})
Reverse(seq) == [k \in 1..Len(seq) |-> seq[Len(seq) + 1 - k]]

\* table.query(KeyConditionExpression = chat_id, ScanIndexForward), whole.
QueryAll(tb, chat, forward) ==
    IF forward THEN Ascending({x \in tb : x.chat_id = chat})
    ELSE Reverse(Ascending({x \in tb : x.chat_id = chat}))
\* One response: the items from position start, at most page_size of them,
\* and whether a LastEvaluatedKey comes with it.
QueryPage(all, start, page_size) ==
    [Items |-> SubSeq(all, start, Min(Len(all), start + page_size - 1)),
     more  |-> start + page_size - 1 < Len(all)]

IsGuardItem(item) == _is_idempotency_guard_item(item)
NotGuardItem(item) == ~IsGuardItem(item)

\* get_chat_messages: lines 312-320.
RECURSIVE CollectPages(_, _, _)
CollectPages(all, start, page_size) ==
    IF QueryPage(all, start, page_size).more
    THEN QueryPage(all, start, page_size).Items
         \o CollectPages(all, start + page_size, page_size)
    ELSE QueryPage(all, start, page_size).Items
get_chat_messages(tb, chat, page_size) ==
    SelectSeq(CollectPages(QueryAll(tb, chat, TRUE), 1, page_size), NotGuardItem)

\* The for loop of get_recent_chat_messages over one page: lines 350-355.
RECURSIVE TakeFromPage(_, _, _)
TakeFromPage(items, collected, limit) ==
    IF items = <<>> THEN collected
    ELSE IF IsGuardItem(Head(items)) THEN TakeFromPage(Tail(items), collected, limit)
    ELSE IF Len(collected) + 1 >= limit THEN Append(collected, Head(items))
    ELSE TakeFromPage(Tail(items), Append(collected, Head(items)), limit)

\* Mutant: only the first page of the query is read.
RecentFirstPage(all, start, page_size, collected, limit) ==
    IF ~(Len(collected) < limit) THEN collected
    ELSE TakeFromPage(QueryPage(all, start, page_size).Items, collected, limit)

\* The while loop: lines 348-360.
RECURSIVE RecentLoop(_, _, _, _, _)
RecentLoop(all, start, page_size, collected, limit) ==
    IF ~(Len(collected) < limit) THEN collected
    ELSE IF QueryPage(all, start, page_size).more
    THEN RecentLoop(all, start + page_size, page_size,
                    TakeFromPage(QueryPage(all, start, page_size).Items, collected, limit),
                    limit)
    ELSE TakeFromPage(QueryPage(all, start, page_size).Items, collected, limit)

\* Limit of each query: max(limit * 2, 20), unless the store cuts pages.
RecentPageLimit(limit) == Max(limit * 2, 20)
get_recent_chat_messages(tb, chat, limit, store_page) ==
    Reverse(RecentLoop(QueryAll(tb, chat, FALSE), 1,
                       Min(store_page, RecentPageLimit(limit)), <<>>, limit))
\* get_last_message: <<>> stands for None.
get_last_message(tb, chat, store_page) ==
    IF get_recent_chat_messages(tb, chat, 1, store_page) = <<>> THEN <<>>
    ELSE <<get_recent_chat_messages(tb, chat, 1, store_page)[1]>>

\* The tables the reads are applied to: any mix of these turns and guards.
ReadItems ==
    {message_item("c1", IsoFormat(n), Uuid4(n + 1), "user", "hi",
                  IF n = 1 THEN "k1" ELSE "") : n \in 0..2}
    \cup {guard_item("c1", IsoFormat(1), Uuid4(2), "k1"),
          guard_item("c1", IsoFormat(5), Uuid4(6), "k2"),
          message_item("c2", IsoFormat(0), Uuid4(7), "agent", "yo", ""),
          guard_item("c2", IsoFormat(0), Uuid4(7), "k1")}
StorePages == {1, 2, 20}
ReadLimits == {0, 1, 2, 3}

InitRead ==
    /\ InitConc
    /\ reads = <<>>

LoadTable(tb) ==
    /\ table = {}
    /\ tb # {}
    /\ table' = tb
    /\ UNCHANGED <<calls, db_clock, reads, guardVars, streamVars, chatVars, evalVars, workerVars>>

ReadAll(chat, store_page) ==
    /\ table # {}
    /\ reads' = <<"get_chat_messages", chat, get_chat_messages(table, chat, store_page)>>
    /\ UNCHANGED <<table, calls, db_clock, guardVars, streamVars, chatVars, evalVars, workerVars>>

ReadRecent(chat, limit, store_page) ==
    /\ table # {}
    /\ reads' = <<"get_recent_chat_messages", chat,
                  get_recent_chat_messages(table, chat, limit, store_page), limit>>
    /\ UNCHANGED <<table, calls, db_clock, guardVars, streamVars, chatVars, evalVars, workerVars>>

ReadLast(chat, store_page) ==
    /\ table # {}
    /\ reads' = <<"get_last_message", chat, get_last_message(table, chat, store_page)>>
    /\ UNCHANGED <<table, calls, db_clock, guardVars, streamVars, chatVars, evalVars, workerVars>>

NextRead ==
    \/ \E tb \in SUBSET ReadItems : LoadTable(tb)
    \/ \E c \in Chats, pg \in StorePages : ReadAll(c, pg)
    \/ \E c \in Chats, l \in ReadLimits, pg \in StorePages : ReadRecent(c, l, pg)
    \/ \E c \in Chats, pg \in StorePages : ReadLast(c, pg)

SpecRead == InitRead /\ [][NextRead]_vars

\* C14: whatever turns and guard records the chat holds, every item a read
\* path returns is a conversation turn of that chat, never a guard record.
IsTurnItem(x) == x.item_type = "" /\ x.role # "" /\ x.message_created_at = ""
C14_ReadsHideGuards ==
    reads # <<>> =>
        \A k \in 1..Len(reads[3]) :
            /\ reads[3][k] \in table
            /\ reads[3][k].chat_id = reads[2]
            /\ IsTurnItem(reads[3][k])

\* The newest sort keys of chat c1 are two guards; the last message read is
\* nevertheless the newest turn.
C14_Witness ==
    /\ reads # <<>>
    /\ reads[1] = "get_last_message" /\ reads[2] = "c1"
    /\ Cardinality({x \in table : x.chat_id = "c1" /\ x.item_type = "idempotency_guard"}) = 2
    /\ Len(reads[3]) = 1
    /\ reads[3][1].created_at = IsoFormat(2)

(***************************************************************************)
(* The history handed to the model (agent.py, _load_chat_history and       *)
(* _trim_history_messages).  A history message is its role and its text;   *)
(* the limits come from the configuration.                                 *)
(***************************************************************************)
AGENT_HISTORY_FETCH_LIMIT  == 15
AGENT_HISTORY_MAX_MESSAGES == 10
AGENT_HISTORY_MAX_CHARS    == 24000
AGENT_MESSAGE_MAX_CHARS    == 8000

HistoryConfig(fetch_limit, max_messages, max_chars, message_max_chars) ==
    [fetch_limit |-> fetch_limit, max_messages |-> max_messages,
     max_chars |-> max_chars, message_max_chars |-> message_max_chars]
DefaultHistoryConfig ==
    HistoryConfig(AGENT_HISTORY_FETCH_LIMIT, AGENT_HISTORY_MAX_MESSAGES,
                  AGENT_HISTORY_MAX_CHARS, AGENT_MESSAGE_MAX_CHARS)

HistoryMessage(role, text) == [role |-> role, text |-> text]

\* Lines 217-229: every message cut to message_max_chars, empty ones dropped.
RECURSIVE TruncateEach(_, _)
TruncateEach(messages, cfg) ==
    IF messages = <<>> THEN <<>>
    ELSE (IF _truncate_text(Head(messages).text, cfg.message_max_chars) = ""
          THEN <<>>
          ELSE <<HistoryMessage(Head(messages).role,
                                _truncate_text(Head(messages).text,
                                               cfg.message_max_chars))>>)
         \o TruncateEach(Tail(messages), cfg)

\* Lines 231-232: the newest max_messages of them.
NewestMessages(trimmed, cfg) ==
    IF cfg.max_messages > 0 /\ Len(trimmed) > cfg.max_messages
    THEN SubSeq(trimmed, Len(trimmed) - cfg.max_messages + 1, Len(trimmed))
    ELSE trimmed

\* Line 250-251: a message that does not fit is passed over once something
\* is kept, and the pass goes on to the older messages (BudgetPass below).
RECURSIVE BudgetPass(_, _, _, _)
SkipMisfit(trimmed, k, budget, kept_reversed) ==
    BudgetPass(trimmed, k - 1, budget, kept_reversed)

\* Lines 237-259: the pass from the newest message (k = Len) to the oldest.
BudgetPass(trimmed, k, budget, kept_reversed) ==
    IF k = 0 THEN kept_reversed
    ELSE IF Len(trimmed[k].text) <= budget
    THEN BudgetPass(trimmed, k - 1, budget - Len(trimmed[k].text),
                    Append(kept_reversed, trimmed[k]))
    ELSE IF kept_reversed # <<>>
    THEN SkipMisfit(trimmed, k, budget, kept_reversed)
    ELSE <<HistoryMessage(trimmed[k].role, _truncate_text(trimmed[k].text, budget))>>

HistoryCandidates(messages, cfg) == NewestMessages(TruncateEach(messages, cfg), cfg)

_trim_history_messages(messages, cfg) ==
    Only({Reverse(BudgetPass(c, Len(c), cfg.max_chars, <<>>)) :
            c \in {HistoryCandidates(messages, cfg)}})

\* A text of n characters.
RECURSIVE TextOfLen(_)
TextOfLen(n) ==
    IF n = 0 THEN ""
    ELSE Only({h \o h \o (IF n % 2 = 1 THEN "x" ELSE "") : h \in {TextOfLen(n \div 2)}})

MaxHistory == 3
HistoryTexts == {" ", TextOfLen(3), TextOfLen(6), TextOfLen(8), TextOfLen(600)}
HistoryMessages == {HistoryMessage(r, t) : r \in {"user", "agent"}, t \in HistoryTexts}
HistoryLists == UNION {[1..n -> HistoryMessages] : n \in 0..MaxHistory}
\* The defaults, the example budget of 10 characters, the smallest budget
\* the configuration allows, and a limit of two messages of 200 characters.
HistoryConfigs ==
    {DefaultHistoryConfig,
     HistoryConfig(AGENT_HISTORY_FETCH_LIMIT, AGENT_HISTORY_MAX_MESSAGES, 10,
                   AGENT_MESSAGE_MAX_CHARS),
     HistoryConfig(AGENT_HISTORY_FETCH_LIMIT, AGENT_HISTORY_MAX_MESSAGES, 500,
                   AGENT_MESSAGE_MAX_CHARS),
     HistoryConfig(AGENT_HISTORY_FETCH_LIMIT, 2, AGENT_HISTORY_MAX_CHARS, 200)}

\* One evaluation of the function on one input.
TrimHistory(messages, cfg) ==
    /\ evaluated = NoCall
    /\ evaluated' = [fn |-> "_trim_history_messages", messages |-> messages, cfg |-> cfg,
                     result |-> _trim_history_messages(messages, cfg)]
    /\ UNCHANGED <<guardVars, streamVars, dbVars, chatVars, workerVars>>

NextHistory == \E ms \in HistoryLists, cfg \in HistoryConfigs : TrimHistory(ms, cfg)

SpecHistory == InitConc /\ [][NextHistory]_vars

Trimmed == evaluated.fn = "_trim_history_messages"
RECURSIVE TotalChars(_)
TotalChars(messages) ==
    IF messages = <<>> THEN 0 ELSE Len(Head(messages).text) + TotalChars(Tail(messages))
IsRunOfNewest(result, candidates) ==
    \E j \in 1..(Len(candidates) + 1) : result = SubSeq(candidates, j, Len(candidates))

\* C26: the history returned is a contiguous run of the most recent
\* candidates in chronological order: once a message does not fit the
\* remaining budget, no older message is included.  With a budget of 10 and
\* messages of 8 and then 6 characters, the newest alone is returned, whole.
C26_StopsAtFirstMisfit ==
    Trimmed =>
        /\ \/ IsRunOfNewest(evaluated.result,
                            HistoryCandidates(evaluated.messages, evaluated.cfg))
           \/ /\ Len(evaluated.result) = 1
              /\ TotalChars(HistoryCandidates(evaluated.messages, evaluated.cfg))
                     > evaluated.cfg.max_chars
        /\ (/\ evaluated.cfg.max_chars = 10
            /\ evaluated.messages = <<HistoryMessage("user", TextOfLen(8)),
                                      HistoryMessage("agent", TextOfLen(6))>>)
               => evaluated.result = <<HistoryMessage("agent", TextOfLen(6))>>

\* C27: the characters of the returned history never exceed the aggregate
\* budget, whatever the configuration, the truncated newest message included.
C27_WithinBudget ==
    Trimmed => TotalChars(evaluated.result) <= evaluated.cfg.max_chars

(***************************************************************************)
(* The control loop (agent.py, create_agent_graph) inside process_chat,    *)
(* inside the chat endpoint (main.py).  The graph runs one node per step;  *)
(* the run is given recursion_limit steps and is aborted with an error     *)
(* when it has used them without reaching its end.                         *)
(***************************************************************************)
AIMessage(content, tool_calls) ==
    [type |-> "ai", content |-> content, tool_calls |-> tool_calls]
HumanMessage(text) == [type |-> "human", content |-> StrContent(text), tool_calls |-> 0]
ToolMessage(text)  == [type |-> "tool", content |-> StrContent(text), tool_calls |-> 0]

\* Python truth of message.content: a non-empty string or a non-empty list.
Truthy(content) ==
    IF content.kind = "str" THEN content.text # "" ELSE content.blocks # <<>>

\* What llm_with_tools.invoke may return.
Replies ==
    {AIMessage(StrContent("answer"), 0),
     AIMessage(StrContent(""), 0),
     AIMessage(StrContent(""), 1),
     AIMessage(ListContent(<<ToolUseBlock>>), 1),
     AIMessage(StrContent("let me check"), 2)}
SystemMessage(prompt) == [type |-> "system", content |-> prompt, tool_calls |-> 0]

\* The turns the chat held before this request.
Histories ==
    {<<>>, <<HistoryMessage("user", "earlier"), HistoryMessage("agent", "old answer")>>}

\* get_recent_chat_messages as _load_chat_history sees it: it raises, or it
\* returns the newest fetch_limit turns, oldest first.
FetchRaises == [ok |-> FALSE, items |-> <<>>]
Fetched(earlier, ts, cfg) ==
    [ok |-> TRUE,
     items |-> SubSeq(earlier \o [k \in 1..Len(ts) |->
                                      HistoryMessage(ts[k].role, ts[k].content.text)],
                      Max(1, Len(earlier) + Len(ts) - cfg.fetch_limit + 1),
                      Len(earlier) + Len(ts))]

\* Lines 273-280: turns without content and turns of other roles are left out.
RECURSIVE HistoryOf(_)
HistoryOf(items) ==
    IF items = <<>> THEN <<>>
    ELSE (IF Head(items).text # "" /\ Head(items).role \in {"user", "agent"}
          THEN <<Head(items)>> ELSE <<>>) \o HistoryOf(Tail(items))

\* Lines 286-287: the last entry is dropped when it is the question itself.
DropPersistedQuestion(history, question) ==
    IF /\ history # <<>>
       /\ history[Len(history)].role = "user"
       /\ history[Len(history)].text = question
    THEN SubSeq(history, 1, Len(history) - 1)
    ELSE history

\* Mutant: a failed fetch is answered with the question as its own history.
LoadFailedEcho(question) == <<HistoryMessage("user", question)>>

\* Lines 282-284: a failed fetch gives an empty history.
LoadFailed(question) == <<>>

\* Lines 264-289.
_load_chat_history(chat_id, question, fetch, cfg) ==
    IF chat_id = "" \/ cfg.fetch_limit <= 0 THEN <<>>
    ELSE IF ~fetch.ok THEN LoadFailed(question)
    ELSE _trim_history_messages(DropPersistedQuestion(HistoryOf(fetch.items), question), cfg)

\* Lines 281-284 of the loop: HumanMessage for a user turn, AIMessage for an
\* agent turn.
AsMessages(history) ==
    [k \in 1..Len(history) |->
        IF history[k].role = "user" THEN HumanMessage(history[k].text)
        ELSE AIMessage(StrContent(history[k].text), 0)]

\* create_agent_graph, lines 606-613: the address of the job, or the
\* sentinel when the job has none or the lookup raises.
JobLookups == {"found", "no address", "raises"}
JobAddress(lookup) == IF lookup = "found" THEN "EQ-address" ELSE "Unknown"

\* build_system_prompt, lines 410-426: the prompt is its template with the
\* address filled in.
PromptModes == {"full", "lean"}
PromptTemplate(mode, fetch_ok) ==
    IF mode = "full"
    THEN IF fetch_ok THEN "system prompt resource" ELSE "DEFAULT_SYSTEM_PROMPT_TEMPLATE"
    ELSE "LEAN_SYSTEM_PROMPT_TEMPLATE"
build_system_prompt(address, mode, fetch_ok) ==
    [template |-> PromptTemplate(mode, fetch_ok), address |-> address]

\* Mutant: the messages go to the model as they are.
Unprompted(messages, prompt) == messages

\* agent_node, lines 624-625: the system prompt is put first unless the
\* first message is one.
ModelInput(messages, prompt) ==
    IF messages = <<>> \/ messages[1].type # "system"
    THEN <<SystemMessage(prompt)>> \o messages
    ELSE messages
Invoked(messages, prompt) ==
    [fn |-> "llm_with_tools.invoke", messages |-> ModelInput(messages, prompt)]

\* Mutant: the conditional edge always leads to the tools.
AlwaysTools(messages) == "tools"

\* Lines 631-636.
should_continue(messages) ==
    IF messages[Len(messages)].tool_calls > 0 THEN "tools" ELSE "end"

\* ToolNode: one ToolMessage per requested call.
ToolResults(n) == [k \in 1..n |-> ToolMessage("tool result")]

\* Mutant: the run is cut off one step late.
OutOfStepsLate(n, limit) == n > limit

\* The run has used the steps its recursion_limit allows.
OutOfSteps(n, limit) == n >= limit

DefaultAnswer == StrContent("I couldn't generate a response.")
\* Lines 726-732: the scan from the newest message down.
RECURSIVE ScanAnswer(_, _)
ScanAnswer(messages, k) ==
    IF k = 0 THEN DefaultAnswer
    ELSE IF /\ messages[k].type = "ai"
            /\ Truthy(messages[k].content)
            /\ ~(messages[k].tool_calls > 0 /\ ~Truthy(messages[k].content))
    THEN messages[k].content
    ELSE ScanAnswer(messages, k - 1)
\* Mutant: the oldest AI message with content is the answer.
ExtractOldest(messages) ==
    IF \E k \in 1..Len(messages) : messages[k].type = "ai" /\ Truthy(messages[k].content)
    THEN messages[CHOOSE k \in 1..Len(messages) :
                      /\ messages[k].type = "ai" /\ Truthy(messages[k].content)
                      /\ \A j \in 1..(k - 1) :
                             ~(messages[j].type = "ai" /\ Truthy(messages[j].content))].content
    ELSE DefaultAnswer

ExtractAnswer(messages) == ScanAnswer(messages, Len(messages))

BlankQuestionAnswer == StrContent("Please provide a non-empty question.")
ErrorAnswer(detail) == StrContent("I encountered an error analyzing the data: " \o detail)
ProcessResult(content, trace_id) ==
    [content |-> content, trace_id |-> trace_id, raised |-> FALSE]

RecursionLimits == {4, 5}
ChatQuestions == {"q", " q", " "}

\* chat, lines 375-387: the user turn is saved before the try block.
ChatReceive(chat, question, limit, access_ok, outcome) ==
    /\ ep = "idle"
    /\ req_chat_id' = chat
    /\ recursion_limit' = limit
    /\ graph_messages' = <<HumanMessage(question)>>
    /\ IF chat # "" /\ ~access_ok
       THEN /\ ep' = "responded"
            /\ chat_response' = [status |-> "error", answer |-> StrContent(""),
                                 message |-> "Access denied"]
            /\ turns' = turns
       ELSE IF chat # "" /\ SaveReturns(outcome) = "raise"
       THEN /\ ep' = "crashed"
            /\ chat_response' = [status |-> "unhandled", answer |-> StrContent(""),
                                 message |-> "save_message raised"]
            /\ turns' = turns
       ELSE /\ ep' = "process"
            /\ chat_response' = chat_response
            /\ turns' = Saved(turns, chat, "user", StrContent(question), outcome)
    /\ UNCHANGED <<chat_result, graph_node, graph_steps, guardVars, streamVars, dbVars,
                   system_prompt, evalVars, workerVars>>

\* process_chat, lines 681-701: setup (create_agent_graph with the job
\* lookup and the system prompt, the tracing handler), the blank question,
\* the history.
ProcessStart(setup_ok, lookup, mode, prompt_ok, fetch) ==
    /\ ep = "process"
    /\ graph_node = "idle"
    /\ \E q \in {graph_messages[1].content.text} :
         IF ~setup_ok
         THEN /\ graph_node' = "raised"
              /\ chat_result' = ProcessResult(ErrorAnswer("setup"), "")
              /\ ep' = "save_agent"
              /\ UNCHANGED <<graph_messages, system_prompt>>
         ELSE IF _truncate_text(q, AGENT_QUESTION_MAX_CHARS) = ""
         THEN /\ graph_node' = "skipped"
              /\ system_prompt' = build_system_prompt(JobAddress(lookup), mode, prompt_ok)
              /\ chat_result' = ProcessResult(BlankQuestionAnswer, "")
              /\ ep' = "save_agent"
              /\ UNCHANGED graph_messages
         ELSE /\ graph_node' = "agent"
              /\ system_prompt' = build_system_prompt(JobAddress(lookup), mode, prompt_ok)
              /\ graph_messages' =
                     AsMessages(_load_chat_history(req_chat_id,
                                    _truncate_text(q, AGENT_QUESTION_MAX_CHARS),
                                    fetch, DefaultHistoryConfig))
                     \o <<HumanMessage(_truncate_text(q, AGENT_QUESTION_MAX_CHARS))>>
              /\ UNCHANGED <<chat_result, ep>>
    /\ UNCHANGED <<req_chat_id, turns, chat_response, graph_steps, recursion_limit,
                   guardVars, streamVars, dbVars, evalVars, workerVars>>

\* agent_node and the conditional edge: lines 619-636, 652-659.
AgentNode(reply) ==
    /\ graph_node = "agent"
    /\ ~OutOfSteps(graph_steps, recursion_limit)
    /\ graph_messages' = Append(graph_messages, reply)
    /\ graph_steps' = graph_steps + 1
    /\ graph_node' = should_continue(Append(graph_messages, reply))
    /\ evaluated' = Invoked(graph_messages, system_prompt)
    /\ UNCHANGED <<req_chat_id, ep, turns, chat_result, chat_response, recursion_limit,
                   guardVars, streamVars, dbVars, system_prompt, workerVars>>

\* tool_node and the edge back to the agent: lines 639, 660.
ToolsNode ==
    /\ graph_node = "tools"
    /\ ~OutOfSteps(graph_steps, recursion_limit)
    /\ graph_messages' = graph_messages
           \o ToolResults(graph_messages[Len(graph_messages)].tool_calls)
    /\ graph_steps' = graph_steps + 1
    /\ graph_node' = "agent"
    /\ UNCHANGED <<req_chat_id, ep, turns, chat_result, chat_response, recursion_limit,
                   guardVars, streamVars, dbVars, system_prompt, evalVars, workerVars>>

\* agent.invoke raises: the model call fails, or the run is out of steps
\* (lines 704-711); the except branch returns the error text (743-755).
GraphRaises(detail) ==
    /\ graph_node \in {"agent", "tools"}
    /\ IF detail = "recursion"
       THEN /\ OutOfSteps(graph_steps, recursion_limit)
            /\ graph_node' = "out_of_steps"
            /\ UNCHANGED evaluated
       ELSE /\ graph_node = "agent"
            /\ ~OutOfSteps(graph_steps, recursion_limit)
            /\ graph_node' = "raised"
            /\ evaluated' = Invoked(graph_messages, system_prompt)
    /\ chat_result' = ProcessResult(ErrorAnswer(detail), "")
    /\ ep' = "save_agent"
    /\ UNCHANGED <<req_chat_id, turns, chat_response, graph_steps, graph_messages,
                   recursion_limit, guardVars, streamVars, dbVars, system_prompt, workerVars>>

\* agent.invoke returns: lines 713-741.
ProcessReturns(trace_id) ==
    /\ graph_node = "end"
    /\ ep = "process"
    /\ chat_result' = ProcessResult(ExtractAnswer(graph_messages), trace_id)
    /\ ep' = "save_agent"
    /\ UNCHANGED <<req_chat_id, turns, chat_response, graph_node, graph_steps,
                   graph_messages, recursion_limit, guardVars, streamVars, dbVars,
                   system_prompt, evalVars, workerVars>>

\* chat, lines 392-404: save the agent turn, answer.
ChatRespond(outcome) ==
    /\ ep = "save_agent"
    /\ turns' = Saved(turns, req_chat_id, "agent", chat_result.content, outcome)
    /\ chat_response' =
         IF req_chat_id # "" /\ SaveReturns(outcome) = "raise"
         THEN [status |-> "error", answer |-> StrContent(""), message |-> "save_message raised"]
         ELSE [status |-> "success", answer |-> chat_result.content, message |-> ""]
    /\ ep' = "responded"
    /\ UNCHANGED <<req_chat_id, chat_result, graph_node, graph_steps, graph_messages,
                   recursion_limit, guardVars, streamVars, dbVars, system_prompt, evalVars,
                   workerVars>>

NextChat ==
    \/ \E c \in {"", "c1"}, q \in ChatQuestions, l \in RecursionLimits,
          a \in BOOLEAN, o \in SaveOutcomes :
           ChatReceive(c, q, l, a, o)
    \/ \E ok \in BOOLEAN, lookup \in JobLookups, mode \in PromptModes, p \in BOOLEAN,
          f \in {FetchRaises} \cup {Fetched(h, turns, DefaultHistoryConfig) : h \in Histories} :
           ProcessStart(ok, lookup, mode, p, f)
    \/ \E r \in Replies : AgentNode(r)
    \/ ToolsNode
    \/ \E d \in {"recursion", "model"} : GraphRaises(d)
    \/ \E t \in {"", "trace-1"} : ProcessReturns(t)
    \/ \E o \in SaveOutcomes : ChatRespond(o)

SpecChat == InitConc /\ [][NextChat]_vars
SpecChatFair == SpecChat /\ WF_vars(NextChat)

ProcessReturned == chat_result # NoProcessResult

\* C15: a failure to persist a turn never surfaces as an exception, and the
\* chat endpoint answers with the same answer whether or not the user turn
\* and the agent turn could be stored.
C15_PersistFailureHidden ==
    /\ ep # "crashed"
    /\ (ep = "responded" /\ ProcessReturned) =>
           chat_response = [status |-> "success", answer |-> chat_result.content,
                            message |-> ""]

GraphRan == graph_node \notin {"idle", "skipped"} /\ Len(graph_messages) > 0
LastMessage == graph_messages[Len(graph_messages)]
\* The run stopped with the model still asking for tools, or a tool result
\* not yet read by the model.
Unfinished ==
    \/ LastMessage.type = "tool"
    \/ LastMessage.type = "ai" /\ LastMessage.tool_calls > 0

\* C16: every invocation ends; the control loop never takes more steps than
\* the recursion limit; a run that has used its steps while the model keeps
\* asking for tools ends with the error result, never with an answer
\* extracted from the unfinished run.
C16_Terminates ==
    /\ [](graph_steps <= recursion_limit)
    /\ [](graph_node = "out_of_steps" =>
              /\ graph_steps = recursion_limit
              /\ chat_result.content = ErrorAnswer("recursion"))
    /\ []((ep \in {"save_agent", "responded"} /\ GraphRan /\ Unfinished) =>
              /\ graph_node \in {"out_of_steps", "raised"}
              /\ chat_result.content \in {ErrorAnswer("recursion"), ErrorAnswer("model")})
    /\ <>(ep \in {"responded", "crashed"})

\* The model asked for tools in all three of its turns; the run of limit 5
\* is cut off before the third round of tools.
C16_Witness ==
    /\ ep = "responded"
    /\ graph_node = "out_of_steps"
    /\ graph_steps = 5
    /\ LastMessage.type = "ai"

\* C17: when a run ends at the recursion limit the chat keeps the user's
\* question and no agent turn.
C17_NoAgentTurnAtLimit ==
    graph_node = "out_of_steps" => AgentTurns = {}

\* C19: the loop starts at the agent; after the agent it goes to the tools
\* exactly when the reply carries a tool call and ends otherwise; after the
\* tools it goes back to the agent.  It is never at its end with a tool call
\* in the last reply, and never at the tools after a reply without one.
C19_Step ==
    /\ (graph_node = "idle" /\ graph_node' # "idle") =>
           graph_node' \in {"agent", "skipped", "raised"} /\ graph_steps' = 0
    /\ (graph_node = "agent" /\ graph_steps' # graph_steps) =>
           /\ graph_messages'[Len(graph_messages')].type = "ai"
           /\ graph_node' \in {"tools", "end"}
           /\ graph_node' = "tools" <=> graph_messages'[Len(graph_messages')].tool_calls > 0
    /\ (graph_node = "tools" /\ graph_steps' # graph_steps) =>
           /\ graph_node' = "agent"
           /\ graph_messages'[Len(graph_messages')].type = "tool"
    /\ graph_node = "end" => graph_node' = "end"
C19_ControlLoop ==
    /\ [][C19_Step]_vars
    /\ [](graph_node = "end" => LastMessage.type = "ai" /\ LastMessage.tool_calls = 0)
    /\ [](graph_node = "tools" => LastMessage.type = "ai" /\ LastMessage.tool_calls > 0)

\* Agent, tools, agent, end.
C19_Witness ==
    /\ graph_node = "end"
    /\ graph_steps = 3
    /\ \E k \in 1..Len(graph_messages) : graph_messages[k].type = "tool"

HasText(m) == ExtractText(m.content) # ""
RECURSIVE NewestWithText(_, _)
NewestWithText(messages, k) ==
    IF k = 0 THEN DefaultAnswer
    ELSE IF messages[k].type = "ai" /\ HasText(messages[k]) THEN messages[k].content
    ELSE NewestWithText(messages, k - 1)

\* C20: the answer of a run that ended normally is the content of the newest
\* model message with non-empty text; a message with tool calls and no text
\* is never the answer.
C20_AnswerIsNewestText ==
    (graph_node = "end" /\ ProcessReturned) =>
        /\ chat_result.content = NewestWithText(graph_messages, Len(graph_messages))
        /\ ~\E k \in 1..Len(graph_messages) :
               /\ graph_messages[k].type = "ai"
               /\ graph_messages[k].tool_calls > 0
               /\ ~HasText(graph_messages[k])
               /\ Truthy(graph_messages[k].content)
               /\ chat_result.content = graph_messages[k].content

ModelInvoked == evaluated.fn = "llm_with_tools.invoke"
QuestionText == _truncate_text(graph_messages[1].content.text, AGENT_QUESTION_MAX_CHARS)

\* C21: process_chat never raises and always returns a non-empty answer
\* string: the apology with the error detail when the setup, the model or
\* the recursion limit failed it, the fixed fallback when no model message
\* has text, the model's text otherwise.
C21_AlwaysAnswerString ==
    ProcessReturned =>
        /\ ~chat_result.raised
        /\ chat_result.content.kind = "str"
        /\ chat_result.content.text # ""
        /\ graph_node \in {"raised", "out_of_steps"} =>
               chat_result.content \in {ErrorAnswer(d) : d \in {"setup", "model", "recursion"}}
        /\ (graph_node = "end" /\ \A k \in 1..Len(graph_messages) :
                                     ~(graph_messages[k].type = "ai" /\ HasText(graph_messages[k])))
               => chat_result.content = DefaultAnswer

\* C24: a failing best-effort collaborator does not stop the setup: with the
\* history fetch failing the history is empty, with the job lookup failing
\* the address is "Unknown", with the prompt resource failing the built-in
\* template is used, and the invocation is at its first Reasoning step.
C24_Step ==
    \A lookup \in JobLookups, mode \in PromptModes, p \in BOOLEAN,
       f \in {FetchRaises} \cup {Fetched(h, turns, DefaultHistoryConfig) : h \in Histories} :
        (/\ ep = "process" /\ graph_node = "idle"
         /\ QuestionText # ""
         /\ ProcessStart(TRUE, lookup, mode, p, f)) =>
            /\ graph_node' = "agent" /\ graph_steps' = 0
            /\ lookup = "raises" => system_prompt'.address = "Unknown"
            /\ (mode = "full" /\ ~p) =>
                   system_prompt'.template = "DEFAULT_SYSTEM_PROMPT_TEMPLATE"
            /\ ~f.ok => graph_messages' = <<HumanMessage(QuestionText)>>
            /\ ~OutOfSteps(graph_steps', recursion_limit')
C24_SetupFallbacks == [][C24_Step]_vars

\* All three failed, with a chat that has the question stored, and the model
\* was called with the built-in prompt, the sentinel address and no history.
C24_Witness ==
    /\ ModelInvoked
    /\ graph_steps = 1
    /\ req_chat_id = "c1" /\ turns # <<>>
    /\ evaluated.messages =
           <<SystemMessage([template |-> "DEFAULT_SYSTEM_PROMPT_TEMPLATE",
                            address |-> "Unknown"]),
             HumanMessage("q")>>

\* C25: in every Reasoning step the messages given to the model start with
\* the system prompt and hold exactly one system prompt; putting the prompt
\* first again changes nothing.
C25_OneSystemPrompt ==
    ModelInvoked =>
        /\ evaluated.messages[1] = SystemMessage(system_prompt)
        /\ Cardinality({k \in 1..Len(evaluated.messages) :
                            evaluated.messages[k].type = "system"}) = 1
        /\ ModelInput(evaluated.messages, system_prompt) = evaluated.messages

\* The second Reasoning step of a run, after a round of tools.
C25_Witness ==
    /\ ModelInvoked
    /\ graph_steps = 3
    /\ \E k \in 1..Len(evaluated.messages) : evaluated.messages[k].type = "tool"

\* C28: when the chat endpoint has stored the question as a user turn, the
\* messages given to the model hold the question exactly once, as the last
\* user message.
C28_QuestionOnce ==
    (/\ ModelInvoked /\ graph_steps = 1
     /\ req_chat_id # "" /\ turns # <<>> /\ turns[1].role = "user") =>
        /\ Cardinality({k \in 1..Len(evaluated.messages) :
                            /\ evaluated.messages[k].type = "human"
                            /\ evaluated.messages[k].content.text
                                   = graph_messages[Len(graph_messages) - 1].content.text})
               = 1
        /\ evaluated.messages[Len(evaluated.messages)].type = "human"

(***************************************************************************)
(* One request, through either entry point: the chat endpoint with         *)
(* process_chat, or the streaming endpoint with process_chat_stream.       *)
(***************************************************************************)
NextAsk ==
    \/ spc = "start" /\ NextChat
    \/ ep = "idle" /\ NextStream

SpecAsk == InitConc /\ [][NextAsk]_vars

BlankQuestions == {q \in Questions \cup ChatQuestions :
                      _truncate_text(q, AGENT_QUESTION_MAX_CHARS) = ""}

\* C22: for an empty or whitespace-only question process_chat returns the
\* fixed rejection as its result and process_chat_stream yields it as an
\* error event, and for that invocation the model is not invoked and no tool
\* runs.
C22_Step ==
    /\ (/\ ep = "process" /\ graph_node = "idle" /\ graph_node' # "idle"
         /\ QuestionText = "") =>
            /\ graph_node' = "skipped"
            /\ chat_result'.content = BlankQuestionAnswer
    /\ \A q \in BlankQuestions, a \in BOOLEAN, o \in UserTurnOutcomes, ok \in BOOLEAN :
           (/\ spc = "start"
            /\ StreamStart("c1", q, a, o, ok)
            /\ spc' \notin {"denied", "crashed"}) =>
               out' = BlankQuestionError
C22_BlankRejected ==
    /\ [][C22_Step]_vars
    /\ [](graph_node = "skipped" => ~ModelInvoked /\ graph_steps = 0)
    /\ [](out = BlankQuestionError => src = <<>>)

\* C23: whatever a tool call meets (the guard's refusal, a gateway error
\* after the retries, a transport failure, a malformed body, any other
\* exception) the tool returns a text to the model: its result, the
\* corrective instruction, or an "Error ..." text naming the failure.
C23_ToolFailuresAreText ==
    /\ last.tool = "get_mcp_resource" =>
           \/ StartsWith(last.result, "doc of ")
           \/ StartsWith(last.result, "Error fetching MCP resource: ")
    /\ last.tool = "sql_query" =>
           \/ last.result \in {SqlResultText, SchemaRequiredMessage}
           \/ StartsWith(last.result, "Error executing query via MCP: ")
    /\ last.tool = "generate_chart_data" =>
           \/ last.result = ChartText
           \/ StartsWith(last.result, "Error generating chart via MCP: ")
           \/ last.result = "Error generating chart: " \o NotObjectError
    /\ last.tool = "list_mcp_resources" =>
           \/ last.result \in {NoResourcesMessage} \cup {JoinLines(l) : l \in Listings}
           \/ StartsWith(last.result, "Error listing MCP resources: ")

\* The gateway failed retry_max + 1 times and the sql_query tool returned
\* the error as its result.
C23_Witness ==
    /\ last.tool = "sql_query"
    /\ Len(last.sent) = retry_max + 1
    /\ last.result = "Error executing query via MCP: MCP request error for /v1/tools/sql_query"

(***************************************************************************)
(* MCPClient._request on its own: one call, the gateway answering each     *)
(* attempt with one of the response kinds.  The answers are one longer     *)
(* than the attempts allowed, so that an attempt too many would show.      *)
(***************************************************************************)
ResponseKinds == {RespOk, RespBadShape, RespNotObject, RespNonJson, Resp4xx, Resp5xx, RespExc}
ResponseScripts == [1..(retry_max + 2) -> ResponseKinds]
RequestPaths == {"/v1/resources", "/v1/tools/sql_query"}

RequestCall(path, responses) ==
    /\ evaluated = NoCall
    /\ evaluated' = [fn |-> "_request", path |-> path, responses |-> responses,
                     result |-> Request(HttpRequest("GET", path, "", ""), responses)]
    /\ UNCHANGED <<guardVars, streamVars, dbVars, chatVars, workerVars>>

NextRequest == \E p \in RequestPaths, rs \in ResponseScripts : RequestCall(p, rs)

SpecRequest == InitConc /\ [][NextRequest]_vars

Requested == evaluated.fn = "_request"
\* A 2xx response whose body is JSON: what _request returns.
Succeeds(r) == ResponseOk(r) /\ r.status # 0 /\ r.body # "nonjson"
Retried(r) == r.status >= 500 \/ r.status = 0
Attempts == Len(evaluated.result.sent)

\* C29: a gateway call makes at most retry_max + 1 attempts; a 5xx response
\* or a transport failure is retried while attempts remain; with the
\* attempts used up the call raises; it never returns the body of a failed
\* response.
C29_BoundedAttempts ==
    Requested =>
        /\ Attempts >= 1 /\ Attempts <= retry_max + 1
        /\ \A k \in 1..retry_max :
               (\A i \in 1..k : Retried(evaluated.responses[i])) => Attempts > k
        /\ (\A i \in 1..(retry_max + 1) : ~Succeeds(evaluated.responses[i])) =>
               /\ Attempts = retry_max + 1
               /\ ~evaluated.result.ok /\ evaluated.result.error # ""
        /\ evaluated.result.ok =>
               /\ Succeeds(evaluated.responses[Attempts])
               /\ evaluated.result.body = evaluated.responses[Attempts].body
        /\ ~evaluated.result.ok => evaluated.result.body = ""

\* Three failing attempts (5xx, transport failure, 5xx); the good response
\* that would have come fourth is never asked for.
C29_Witness ==
    /\ Requested
    /\ evaluated.responses = <<Resp5xx, RespExc, Resp5xx, RespOk>>
    /\ Attempts = retry_max + 1
    /\ ~evaluated.result.ok

\* s holds sub as a substring.
Contains(s, sub) ==
    \E i \in 1..(Len(s) - Len(sub) + 1) : SubSeq(s, i, i + Len(sub) - 1) = sub
Persistent(r) == [i \in 1..(retry_max + 2) |-> r]

\* C30: when every attempt ends in an HTTP error status, the error raised
\* names the path and that status; the error for a body that is not JSON
\* differs from the error for an HTTP status.
C30_ErrorCarriesStatus ==
    Requested =>
        /\ evaluated.responses = Persistent(Resp4xx) =>
               /\ Contains(evaluated.result.error, evaluated.path)
               /\ Contains(evaluated.result.error, "404")
        /\ evaluated.responses = Persistent(Resp5xx) =>
               /\ Contains(evaluated.result.error, evaluated.path)
               /\ Contains(evaluated.result.error, "503")
        /\ evaluated.responses = Persistent(RespNonJson) =>
               evaluated.result.error #
                   Request(HttpRequest("GET", evaluated.path, "", ""),
                           Persistent(Resp4xx)).error

\* C37: only a 5xx response or a transport failure is tried again: a call
\* whose first response is a 4xx, or a 2xx with a body that is not JSON,
\* ends with an error after that one attempt.
C37_ClientErrorsNotRetried ==
    (/\ Requested
     /\ \/ evaluated.responses[1] = Resp4xx
        \/ evaluated.responses[1] = RespNonJson) =>
        /\ Attempts = 1
        /\ ~evaluated.result.ok

\* The position of the current question: the last user message.
QuestionAt(messages) ==
    Max(0, CHOOSE k \in 0..Len(messages) :
               /\ k > 0 => messages[k].type = "human"
               /\ \A j \in (k + 1)..Len(messages) : messages[j].type # "human")

\* C38: the answer of a run that ended normally is the fallback or the
\* content of a message the model wrote in this invocation, after the
\* question; it is never the content of an agent turn loaded from the
\* chat history.
C38_AnswerFromThisRun ==
    (graph_node = "end" /\ ProcessReturned) =>
        \/ chat_result.content = DefaultAnswer
        \/ \E k \in (QuestionAt(graph_messages) + 1)..Len(graph_messages) :
               /\ graph_messages[k].type = "ai"
               /\ chat_result.content = graph_messages[k].content

IsToken(e) == e.type = "token"
IsProgress(e) == e.type \in {"thinking", "tool_start", "tool_end"}
IsPrefixOf(a, b) == Len(a) <= Len(b) /\ a = SubSeq(b, 1, Len(a))

\* C33: no token event is yielded while the source stream runs; in what is
\* yielded every token event comes after every thinking, tool_start and
\* tool_end event; at the normal end the token events are the chunks left
\* in the buffer, in their order (the first of them when the consumer
\* stopped during the flush).
C33_TokensAfterStreamEnd ==
    /\ spc = "streaming" => SelectSeq(out, IsToken) = <<>>
    /\ \A i \in 1..Len(out), j \in 1..Len(out) :
           (i < j /\ IsToken(out[i])) => ~IsProgress(out[j])
    /\ spc = "done" =>
           SelectSeq(out, IsToken) = BufferAs("token", st.post_tool_buffer)
    /\ spc = "cancelled" =>
           IsPrefixOf(SelectSeq(out, IsToken), BufferAs("token", st.post_tool_buffer))

\* Thinking before a tool, then two chunks after it that are flushed as the
\* answer at the end.
C33_Witness ==
    /\ spc = "done"
    /\ \E k \in 1..Len(out) : out[k].type = "thinking"
    /\ Len(SelectSeq(out, IsToken)) = 2
    /\ Len(st.post_tool_buffer) = 2

\* C39: the chat holds at most one agent turn for a stream, none while the
\* event sequence has not ended; its content is the token events forwarded
\* to the consumer joined in their order, thinking text left out; when no
\* token event was forwarded there is no agent turn.
C39_OneAgentTurnOfTokens ==
    /\ Cardinality(AgentTurns) <= 1
    /\ spc \in {"start", "streaming"} => AgentTurns = {}
    /\ \A k \in AgentTurns :
           /\ turns[k].content = StrContent(JoinTokens(sse))
           /\ turns[k].content = StrContent(JoinTokens(out))
           /\ Len(sse) > 0 /\ sse[Len(sse)].type \in {"done", "error"}
    /\ SelectSeq(sse, IsToken) = <<>> => AgentTurns = {}

\* A stream with thinking text and an answer; the agent turn holds the
\* answer only.
C39_Witness ==
    /\ spc = "done"
    /\ AgentTurns # {}
    /\ \E k \in 1..Len(out) : out[k].type = "thinking"
    /\ \E k \in 1..Len(sse) : sse[k].type = "token"

\* The stored turns of a chat, oldest first.
StoredTurns(chat) == SelectSeq(QueryAll(table, chat, TRUE), IsTurnItem)
NewestOf(ts, n) == SubSeq(ts, Len(ts) - Min(n, Len(ts)) + 1, Len(ts))

\* C36: get_recent_chat_messages(chat_id, limit) returns the min(limit, n)
\* most recent of the n stored turns of the chat, oldest first, whatever
\* guard records the chat holds and however the store cuts the query into
\* pages.
C36_RecentTurns ==
    (reads # <<>> /\ reads[1] = "get_recent_chat_messages") =>
        reads[3] = NewestOf(StoredTurns(reads[2]), reads[4])

\* Three turns and two guard records in the chat; the two newest turns are
\* returned, oldest first.
C36_Witness ==
    /\ reads # <<>>
    /\ reads[1] = "get_recent_chat_messages" /\ reads[2] = "c1" /\ reads[4] = 2
    /\ Cardinality({x \in table : x.chat_id = "c1" /\ x.item_type = "idempotency_guard"}) = 2
    /\ Len(StoredTurns("c1")) = 3
    /\ Len(reads[3]) = 2
    /\ reads[3][1].created_at = IsoFormat(1) /\ reads[3][2].created_at = IsoFormat(2)

(***************************************************************************)
(* One resource fetch of a fresh session, over the shapes a resource name  *)
(* can take: alias prefixes, categories, trailing slash or blank.          *)
(***************************************************************************)
NamePrefixes == {"", "resource://tonpixo/", "v1/resources/", "resources/",
                 "resource://tonpixo/v1/resources/", "resource://tonpixo/resources/",
                 "v1/resources/resources/", " /"}
NameBases    == {"schema/transactions", "schema", "schemas/x", "Schema/transactions",
                 "rules/sql_rules", "tool_description/sql_query", "system_prompt",
                 "tonpixo_system_prompt", ""}
NameSuffixes == {"", "/", " "}
NameShapes   == {p \o b \o x : p \in NamePrefixes, b \in NameBases, x \in NameSuffixes}

FetchByName(name) ==
    /\ evaluated = NoCall
    /\ evaluated' = [fn |-> "_fetch_mcp_resource", name |-> name,
                     result |-> _fetch_mcp_resource(name, FALSE, resource_cache, now,
                                                    cache_ttl_seconds, AllOk)]
    /\ UNCHANGED <<guardVars, streamVars, dbVars, chatVars, workerVars>>

NextNames == \E n \in NameShapes : FetchByName(n)

SpecNames == InitConc /\ [][NextNames]_vars

FetchedByName == evaluated.fn = "_fetch_mcp_resource"

\* C34: for every resource name whose fetch succeeds, the session becomes
\* schema-loaded exactly when the name the gateway client resolved it to is
\* in the schema/ category.
C34_GuardAgreesWithGateway ==
    (FetchedByName /\ evaluated.result.ok) =>
        (evaluated.result.loaded <=> StartsWith(evaluated.result.resolved, "schema/"))

\* An aliased name with two prefixes and a trailing slash, fetched and
\* counted as the schema.
C34_Witness ==
    /\ FetchedByName
    /\ evaluated.name = "resource://tonpixo/v1/resources/schema/transactions/"
    /\ evaluated.result.ok
    /\ evaluated.result.resolved = "schema/transactions"
    /\ evaluated.result.loaded

(***************************************************************************)
(* The gateway client's four caches over time.  The prompt, tool-list and  *)
(* resource-list caches are kept under their attribute names next to the   *)
(* resource contents; a getter is called with or without a ttl override.   *)
(***************************************************************************)
MaxAge == 2     \* the cache clock runs from 0 to MaxAge

NoTtl == -9     \* ttl_seconds = None
TtlOverrides == {NoTtl, -1, 0, 1, 2}

_ttl(ttl_seconds, default) == IF ttl_seconds = NoTtl THEN default ELSE Max(0, ttl_seconds)

CacheHitPayload(resource, ttl) ==
    [event |-> "cache_hit", resource |-> resource, ttl_seconds |-> ttl]

CachedRaises(msg, sent, cache) ==
    [ok |-> FALSE, error |-> msg, sent |-> sent, cache |-> cache, hit |-> FALSE,
     observed |-> <<>>]

\* A getter after self._request returned or raised (http).
CachedFetched(key, invalid, http, cache, t) ==
    IF ~http.ok THEN CachedRaises(http.error, http.sent, cache)
    ELSE IF http.body # "valid" THEN CachedRaises(invalid, http.sent, cache)
    ELSE [ok |-> TRUE, error |-> "", sent |-> http.sent, cache |-> CachePut(cache, key, t),
          hit |-> FALSE, observed |-> <<>>]

\* The shape the three single-value getters share: the cached value and a
\* cache_hit report when the cache is fresh, else one request whose body is
\* validated and cached with the time taken before the request.
CachedGet(key, resource, path, invalid, cache, t, ttl, responses) ==
    IF CacheHit(cache, key, t, ttl)
    THEN [ok |-> TRUE, error |-> "", sent |-> <<>>, cache |-> cache, hit |-> TRUE,
          observed |-> <<CacheHitPayload(resource, ttl)>>]
    ELSE Only({CachedFetched(key, invalid, http, cache, t) :
                 http \in {Request(HttpRequest("GET", path, "", ""), responses)}})

get_system_prompt_template(cache, t, ttl, responses) ==
    CachedGet("_prompt_cache", "tonpixo_system_prompt", "/v1/resources/tonpixo_system_prompt",
              "MCP system prompt resource is empty.", cache, t, ttl, responses)

list_tools(cache, t, ttl, responses) ==
    CachedGet("_tools_cache", "tools", "/v1/tools", "MCP tools list response is invalid.",
              cache, t, ttl, responses)

list_resources(cache, t, ttl, responses) ==
    CachedGet("_resources_cache", "resources", "/v1/resources",
              "MCP resources list response is invalid.", cache, t, ttl, responses)

\* get_resource with its cache_hit report.
GetResourceObserved(resource_name, cache, t, ttl, responses) ==
    Only({[ok |-> r.ok, error |-> r.error, sent |-> r.sent, cache |-> r.cache, hit |-> r.hit,
           observed |-> IF r.hit THEN <<CacheHitPayload(r.resolved, ttl)>> ELSE <<>>] :
            r \in {get_resource(resource_name, cache, t, ttl, responses)}})

Getters == {"get_system_prompt_template", "list_tools", "list_resources", "get_resource"}
CachedNames == {"schema/transactions", "resource://tonpixo/v1/resources/schema/transactions/"}
GetterKey(getter, name) ==
    IF getter = "get_system_prompt_template" THEN "_prompt_cache"
    ELSE IF getter = "list_tools" THEN "_tools_cache"
    ELSE IF getter = "list_resources" THEN "_resources_cache"
    ELSE Resolved(name).name
CacheScripts == {AllOk, Script(1, Resp5xx, RespBadShape)}
ClientCaches == CacheKeys \cup {"_prompt_cache", "_tools_cache", "_resources_cache"}

GetterCall(getter, name, cache, t, ttl, responses) ==
    IF getter = "get_system_prompt_template"
    THEN get_system_prompt_template(cache, t, ttl, responses)
    ELSE IF getter = "list_tools" THEN list_tools(cache, t, ttl, responses)
    ELSE IF getter = "list_resources" THEN list_resources(cache, t, ttl, responses)
    ELSE GetResourceObserved(name, cache, t, ttl, responses)

CallGetter(getter, name, ttl_seconds, responses) ==
    /\ \E ttl \in {_ttl(ttl_seconds, cache_ttl_seconds)} :
       \E r \in {GetterCall(getter, name, resource_cache, now, ttl, responses)} :
           /\ resource_cache' = r.cache
           /\ evaluated' = [fn |-> getter, key |-> GetterKey(getter, name), ttl |-> ttl,
                            at |-> now, cached_at |-> resource_cache[GetterKey(getter, name)],
                            result |-> r]
    /\ UNCHANGED <<job_id, schema_state, schema_fetched, cls, now, cache_ttl_seconds,
                   require_schema, last>>
    /\ UNCHANGED <<streamVars, dbVars, chatVars, workerVars>>

CacheTick ==
    /\ now < MaxAge
    /\ now' = now + 1
    /\ UNCHANGED <<job_id, schema_state, schema_fetched, cls, resource_cache,
                   cache_ttl_seconds, require_schema, last>>
    /\ UNCHANGED <<streamVars, dbVars, chatVars, evalVars, workerVars>>

InitCache ==
    /\ job_id = [s \in Sessions |-> ""]
    /\ schema_state = [s \in Sessions |-> FALSE]
    /\ schema_fetched = [s \in Sessions |-> FALSE]
    /\ cls = [s \in Sessions |-> InitClassifier]
    /\ resource_cache = [k \in ClientCaches |-> -1]
    /\ now = 0
    /\ cache_ttl_seconds \in {0, 1}
    /\ require_schema = TRUE
    /\ last = NoStep
    /\ InitStream
    /\ InitDb
    /\ InitChat

NextCache ==
    \/ \E g \in Getters \ {"get_resource"}, o \in TtlOverrides, rs \in CacheScripts :
           CallGetter(g, "", o, rs)
    \/ \E n \in CachedNames, o \in TtlOverrides, rs \in CacheScripts :
           CallGetter("get_resource", n, o, rs)
    \/ CacheTick

SpecCache == InitCache /\ [][NextCache]_vars

GetterCalled == evaluated # NoCall /\ evaluated.fn \in Getters
CachedBefore == evaluated.cached_at >= 0
AgeBefore    == evaluated.at - evaluated.cached_at

\* C31: a getter of the prompt template, the tool list, the resource list or
\* a resource's content returns the cached value without a request exactly
\* when a value is cached and its age is below the effective ttl; otherwise
\* it sends a request; an effective ttl of 0 never hits; every hit is
\* reported to the observer as one cache_hit event, and nothing else is.
C31_CacheByAge ==
    GetterCalled =>
        /\ evaluated.ttl >= 0
        /\ evaluated.result.hit <=> (CachedBefore /\ AgeBefore < evaluated.ttl)
        /\ evaluated.result.hit =>
               /\ evaluated.result.ok
               /\ evaluated.result.sent = <<>>
               /\ evaluated.result.cache[evaluated.key] = evaluated.cached_at
               /\ Len(evaluated.result.observed) = 1
               /\ evaluated.result.observed[1].event = "cache_hit"
               /\ evaluated.result.observed[1].ttl_seconds = evaluated.ttl
        /\ ~evaluated.result.hit =>
               /\ evaluated.result.sent # <<>>
               /\ evaluated.result.observed = <<>>
               /\ evaluated.result.ok => evaluated.result.cache[evaluated.key] = evaluated.at
        /\ evaluated.ttl = 0 => ~evaluated.result.hit

\* A value cached at time 0 is refetched at time 1 under a ttl of 1.
C31_Witness ==
    /\ GetterCalled
    /\ evaluated.fn = "list_tools"
    /\ evaluated.ttl = 1
    /\ evaluated.cached_at = 0
    /\ evaluated.at = 1
    /\ ~evaluated.result.hit
    /\ evaluated.result.sent # <<>>

(***************************************************************************)
(* Focused retrieval of _fetch_mcp_resource: the lines around the first    *)
(* matches of a keyword.  Indices count from 1 here and from 0 in the code.*)
(***************************************************************************)
FOCUS_MAX_MATCHES == 6
FOCUS_CONTEXT     == 4

LowerChar(c) == IF c = "A" THEN "a" ELSE IF c = "K" THEN "k" ELSE IF c = "Z" THEN "z" ELSE c
RECURSIVE Lower(_)
Lower(s) == IF s = "" THEN "" ELSE LowerChar(CharAt(s, 1)) \o Lower(SubSeq(s, 2, Len(s)))

StripText(s) == StripChars(s, {" ", "\n"})

\* str.splitlines() for "\n": the pieces between line ends, without an empty
\* piece after the last line end.
RECURSIVE SplitFrom(_, _, _)
SplitFrom(content, i, piece) ==
    IF i > Len(content) THEN (IF piece = "" THEN <<>> ELSE <<piece>>)
    ELSE IF CharAt(content, i) = "\n"
    THEN <<piece>> \o SplitFrom(content, i + 1, "")
    ELSE SplitFrom(content, i + 1, piece \o CharAt(content, i))
SplitLines(content) == SplitFrom(content, 1, "")

\* matches: the indices of the lines whose lower-cased text holds focus_text.
FocusMatches(lines, focus_text) ==
    SelectSeq([i \in 1..Len(lines) |-> i],
              LAMBDA i : Contains(Lower(lines[i]), focus_text))

\* The loop over matches[:6]: the indices appended to focused_lines.
RECURSIVE FocusIndices(_, _, _)
FocusIndices(matches, total, included) ==
    IF matches = <<>> THEN included
    ELSE LET start == Max(1, matches[1] - FOCUS_CONTEXT)
             end   == Min(total, matches[1] + FOCUS_CONTEXT)
             fresh == SelectSeq([k \in 1..Max(0, end - start + 1) |-> start + k - 1],
                                LAMBDA j : \A q \in 1..Len(included) : included[q] # j)
         IN  FocusIndices(Tail(matches), total, included \o fresh)

\* Mutant: the joined lines are returned as they are.
FocusedUnstripped(lines, matches) ==
    LET first == SubSeq(matches, 1, Min(FOCUS_MAX_MATCHES, Len(matches)))
        idx   == FocusIndices(first, Len(lines), <<>>)
    IN  JoinLines([k \in 1..Len(idx) |-> lines[idx[k]]])

FocusedOf(lines, matches) ==
    LET first == SubSeq(matches, 1, Min(FOCUS_MAX_MATCHES, Len(matches)))
        idx   == FocusIndices(first, Len(lines), <<>>)
    IN  StripText(JoinLines([k \in 1..Len(idx) |-> lines[idx[k]]]))

\* agent.py 484-499; the content is shorter than the max_chars floor of 500,
\* so the cut after it does not apply.
FocusContent(content, focus) ==
    LET focus_text == Lower(Strip(focus))
        lines      == SplitLines(content)
        matches    == FocusMatches(lines, focus_text)
        focused    == FocusedOf(lines, matches)
    IN  IF focus_text = "" THEN content
        ELSE IF matches = <<>> THEN content
        ELSE IF focused # "" THEN focused
        ELSE content

MaxLines == 11
\* <<the text of a line that does not match, the focus keyword>>
FocusCases == {<<"x", "a">>, <<" x", " KA ">>, <<"", "a">>, <<"x", "z">>}
\* A content of n lines: line i matches when i is in hits, else it is `other`.
ContentOf(n, hits, other) ==
    JoinLines([i \in 1..n |-> IF i \in hits THEN "Ka" ELSE other])

FocusCall(content, focus) ==
    /\ evaluated = NoCall
    /\ evaluated' = [fn |-> "focus", content |-> content, focus |-> focus,
                     result |-> FocusContent(content, focus)]
    /\ UNCHANGED <<guardVars, streamVars, dbVars, chatVars, workerVars>>

NextFocus ==
    \E n \in 0..MaxLines, c \in FocusCases :
        \E hits \in SUBSET (1..n) : FocusCall(ContentOf(n, hits, c[1]), c[2])

SpecFocus == InitConc /\ [][NextFocus]_vars

Focused == evaluated # NoCall /\ evaluated.fn = "focus"

\* The lines the claim names: those within FOCUS_CONTEXT of one of the first
\* FOCUS_MAX_MATCHES matching lines, in the content's order, each once.
NearFirstMatches(lines, focus_text) ==
    LET matches == FocusMatches(lines, focus_text)
        first   == {matches[k] : k \in 1..Min(FOCUS_MAX_MATCHES, Len(matches))}
    IN  SelectSeq([i \in 1..Len(lines) |-> i],
                  LAMBDA i : \E h \in first : i >= h - FOCUS_CONTEXT /\ i <= h + FOCUS_CONTEXT)

\* C35: when the keyword matches a line, the result is the lines within 4 of
\* one of the first 6 matching lines, as they stand in the content, in the
\* content's order and each once; when no line matches, it is the content.
C35_FocusedLines ==
    Focused =>
        LET lines == SplitLines(evaluated.content)
            ft    == Lower(Strip(evaluated.focus))
            near  == NearFirstMatches(lines, ft)
        IN  IF near = <<>> THEN evaluated.result = evaluated.content
            ELSE evaluated.result = JoinLines([k \in 1..Len(near) |-> lines[near[k]]])

(***************************************************************************)
(* The ingestion worker on one job record, and cancel_job of the API.      *)
(* Every read and every write of the jobs table is a step of its own, so   *)
(* cancel_job can run between a cancellation check and the write after it. *)
(***************************************************************************)
MaxProgress == 2     \* on_progress calls of one fetch

\* table.update_item(set #s = :s, #c = :c): an unconditional write.
SetStatusCount(item, status, count) == [item EXCEPT !.status = status, !.count = count]
\* table.update_item(set #s = :s).
SetStatus(item, status) == [item EXCEPT !.status = status]

\* check_job_cancelled: the status read, False when the read raises.
check_job_cancelled(item, read_ok) == read_ok /\ item.status = "cancelled"

WorkerAt(pc) == [worker EXCEPT !.pc = pc]
WorkerOnly == UNCHANGED <<guardVars, streamVars, dbVars, chatVars, evalVars>>

\* main.py cancel_job.
cancel_job ==
    /\ jobs_item' = SetStatus(jobs_item, "cancelled")
    /\ UNCHANGED worker
    /\ WorkerOnly

\* worker.py 41-44: the check before processing starts.
CheckBeforeStart(read_ok) ==
    /\ worker.pc = "received"
    /\ worker' = WorkerAt(IF check_job_cancelled(jobs_item, read_ok) THEN "done"
                          ELSE "initial_update")
    /\ UNCHANGED jobs_item
    /\ WorkerOnly

\* worker.py 64-70: the initial status update.
InitialUpdate ==
    /\ worker.pc = "initial_update"
    /\ jobs_item' = SetStatusCount(jobs_item, "processing", 0)
    /\ worker' = WorkerAt("fetching")
    /\ WorkerOnly

\* The fetch calls on_progress: worker.py 47-51, the check inside it.
ProgressCheck(read_ok) ==
    /\ worker.pc = "fetching"
    /\ worker.progress < MaxProgress
    /\ worker' = [worker EXCEPT
                     !.pc = IF check_job_cancelled(jobs_item, read_ok) THEN "done"
                            ELSE "progress_update",
                     !.progress = @ + 1]
    /\ UNCHANGED jobs_item
    /\ WorkerOnly

\* worker.py 53-61: the progress write; a failing write is swallowed.
ProgressUpdate(write_ok) ==
    /\ worker.pc = "progress_update"
    /\ jobs_item' = IF write_ok THEN SetStatusCount(jobs_item, "processing", worker.progress)
                    ELSE jobs_item
    /\ worker' = WorkerAt("fetching")
    /\ WorkerOnly

\* The fetch returns a frame of `rows` rows, or raises.
FetchEnds(raises, rows) ==
    /\ worker.pc = "fetching"
    /\ worker' = [worker EXCEPT !.pc = IF raises THEN "failed" ELSE "final_check",
                                !.rows = rows]
    /\ UNCHANGED jobs_item
    /\ WorkerOnly

\* worker.py 80-83: the final check before saving.
FinalCheck(read_ok) ==
    /\ worker.pc = "final_check"
    /\ worker' = WorkerAt(IF check_job_cancelled(jobs_item, read_ok) THEN "done" ELSE "saving")
    /\ UNCHANGED jobs_item
    /\ WorkerOnly

\* worker.py 85-105: the frame is written to the data bucket, or that raises.
Save(raises) ==
    /\ worker.pc = "saving"
    /\ worker' = WorkerAt(IF raises THEN "failed" ELSE "final_update")
    /\ UNCHANGED jobs_item
    /\ WorkerOnly

\* worker.py 107-119: the final status.
FinalUpdate ==
    /\ worker.pc = "final_update"
    /\ jobs_item' = SetStatusCount(jobs_item, IF worker.rows = 0 THEN "empty" ELSE "success",
                                   worker.rows)
    /\ worker' = WorkerAt("done")
    /\ WorkerOnly

\* worker.py 125-128: `except Exception`, the check before the error status.
ErrorCheck(read_ok) ==
    /\ worker.pc = "failed"
    /\ worker' = WorkerAt(IF check_job_cancelled(jobs_item, read_ok) THEN "done"
                          ELSE "error_update")
    /\ UNCHANGED jobs_item
    /\ WorkerOnly

\* worker.py 129-134.
ErrorUpdate ==
    /\ worker.pc = "error_update"
    /\ jobs_item' = SetStatus(jobs_item, "error")
    /\ worker' = WorkerAt("done")
    /\ WorkerOnly

NextWorker ==
    \/ cancel_job
    \/ \E read_ok \in BOOLEAN : CheckBeforeStart(read_ok)
    \/ InitialUpdate
    \/ \E read_ok \in BOOLEAN : ProgressCheck(read_ok)
    \/ \E write_ok \in BOOLEAN : ProgressUpdate(write_ok)
    \/ \E raises \in BOOLEAN, rows \in 0..MaxProgress : FetchEnds(raises, rows)
    \/ \E read_ok \in BOOLEAN : FinalCheck(read_ok)
    \/ \E raises \in BOOLEAN : Save(raises)
    \/ FinalUpdate
    \/ \E read_ok \in BOOLEAN : ErrorCheck(read_ok)
    \/ ErrorUpdate

SpecWorker == InitConc /\ [][NextWorker]_vars

\* C40: once the job's status is cancelled, no step changes it.
C40_CancelledStays ==
    [][jobs_item.status = "cancelled" => jobs_item'.status = "cancelled"]_vars

(***************************************************************************)
(* One invocation of process_chat for job J1 with the tools of its session *)
(* behind the graph's tool node: the model asks for the schema, then for   *)
(* the SQL query, then answers.                                            *)
(***************************************************************************)
ScenarioQuestion == "What's my TON balance sent to Fragment?"
ScenarioQuery ==
    "SELECT sum(amount) FROM transactions WHERE job_id='J1' AND lower(label) LIKE '%fragment%'"
FinalSentence == "You sent 42.5 TON to Fragment."

\* An AIMessage asking for one tool call, or none (name "").
AICall(content, name, arg) ==
    [type |-> "ai", content |-> content, tool_calls |-> IF name = "" THEN 0 ELSE 1,
     call |-> [name |-> name, arg |-> arg]]

\* What the model says beside a tool call.
CallContents == {StrContent(""), StrContent("let me check"), ListContent(<<ToolUseBlock>>)}

\* The model of the scenario, by the graph steps run so far.
ScenarioReply(steps, beside) ==
    IF steps = 0 THEN AICall(beside, "get_mcp_resource", "schema/transactions")
    ELSE IF steps = 2 THEN AICall(beside, "sql_query", ScenarioQuery)
    ELSE AICall(StrContent(FinalSentence), "", "")

\* The tool node runs the requested tool of the session.
RunToolCall(call, job, loaded, cache, t, ttl, responses) ==
    IF call.name = "sql_query"
    THEN Only({[result |-> q.result, sent |-> q.sent, loaded |-> loaded, cache |-> cache,
                fetched |-> FALSE] : q \in {sql_query(call.arg, job, loaded, responses)}})
    ELSE Only({[result |-> r.result, sent |-> r.sent, loaded |-> r.loaded, cache |-> r.cache,
                fetched |-> r.ok /\ StartsWith(r.resolved, "schema/")] :
                 r \in {_fetch_mcp_resource(call.arg, loaded, cache, t, ttl, responses)}})

ToolNodeRuns(s, responses) ==
    /\ graph_node = "tools"
    /\ ~OutOfSteps(graph_steps, recursion_limit)
    /\ job_id[s] # ""
    /\ \E call \in {graph_messages[Len(graph_messages)].call} :
       \E r \in {RunToolCall(call, job_id[s], schema_state[s], resource_cache, now,
                             cache_ttl_seconds, responses)} :
           /\ schema_state' = OwnSchemaState(schema_state, s, r.loaded)
           /\ schema_fetched' = [schema_fetched EXCEPT ![s] = @ \/ r.fetched]
           /\ resource_cache' = r.cache
           /\ last' = Step(s, call.name, call.arg, r.sent, r.result, <<>>)
           /\ graph_messages' = Append(graph_messages, ToolMessage(r.result))
    /\ graph_steps' = graph_steps + 1
    /\ graph_node' = "agent"
    /\ UNCHANGED <<job_id, cls, now, cache_ttl_seconds, require_schema>>
    /\ UNCHANGED <<req_chat_id, ep, turns, chat_result, chat_response, recursion_limit,
                   system_prompt>>
    /\ UNCHANGED <<streamVars, dbVars, evalVars, workerVars>>

ScenarioLimits == {4, 5, 15}
\* The gateway answers at once or after one failed attempt.
ScenarioScripts == {AllOk, Script(1, Resp5xx, RespOk)}

NextE2E ==
    \/ \E c \in {"", "c1"}, l \in ScenarioLimits, o \in SaveOutcomes :
           ChatReceive(c, ScenarioQuestion, l, TRUE, o)
    \/ (ep = "process" /\ job_id["s1"] = "" /\ CreateSession("s1", "J1"))
    \/ \E lookup \in JobLookups, mode \in PromptModes, p \in BOOLEAN,
          f \in {FetchRaises} \cup {Fetched(h, turns, DefaultHistoryConfig) : h \in Histories} :
           (job_id["s1"] = "J1" /\ ProcessStart(TRUE, lookup, mode, p, f))
    \/ \E beside \in CallContents : AgentNode(ScenarioReply(graph_steps, beside))
    \/ \E rs \in ScenarioScripts : ToolNodeRuns("s1", rs)
    \/ GraphRaises("recursion")
    \/ \E t \in {"", "trace-1"} : ProcessReturns(t)
    \/ \E o \in SaveOutcomes : ChatRespond(o)

SpecE2E == InitConc /\ [][NextE2E]_vars

\* C32: in the scenario the SQL call is not refused: every request it sends
\* carries the query as the model wrote it and job id J1; the tool message
\* the model receives for it is "42.5"; and, the recursion limit leaving
\* room for the scenario's five steps (agent, tools, agent, tools, agent),
\* the run ends with the model's final
\* sentence, which contains "42.5", as the answer.
C32_Scenario ==
    /\ last.tool = "sql_query" =>
           /\ last.sent # <<>>
           /\ \A k \in 1..Len(last.sent) :
                  /\ last.sent[k].query = ScenarioQuery
                  /\ last.sent[k].job_id = "J1"
                  /\ last.sent[k].path = "/v1/tools/sql_query"
           /\ last.result = "42.5"
           /\ \E k \in 1..Len(graph_messages) : graph_messages[k] = ToolMessage("42.5")
    /\ \A k \in 1..Len(graph_messages) :
           graph_messages[k].type = "tool" =>
               graph_messages[k].content.text # SchemaRequiredMessage
    /\ recursion_limit >= 5 => graph_node # "out_of_steps"
    /\ (graph_node = "end" /\ ProcessReturned) =>
           /\ chat_result.content = StrContent(FinalSentence)
           /\ Contains(chat_result.content.text, "42.5")
           /\ last.tool = "sql_query"

\* The scenario ran to its answer over a chat with history, the gateway
\* having failed once before it answered the query.
C32_Witness ==
    /\ ep = "responded"
    /\ graph_node = "end"
    /\ chat_response.status = "success"
    /\ chat_response.answer = StrContent(FinalSentence)
    /\ last.tool = "sql_query"
    /\ Len(last.sent) = 2
    /\ Len(graph_messages) > 6

====
